---------------------------- MODULE Spec2Model ----------------------------
(***************************************************************************)
(* A model of the gpt5 client library: the open enum codec (enums.rs),     *)
(* the request builder (requests.rs), the response accessors               *)
(* (responses.rs) and the client's request() and simple() (client.rs,      *)
(* with the copy of request() in lib.rs).                                  *)
(*                                                                         *)
(* Conventions.  Option<T> is a record with a boolean field some; a JSON   *)
(* value is a record tagged by t ("null", "number", "string", "array",     *)
(* "object"); a Rust enum value is a record with a field tag, and the      *)
(* catch-all variant Unknown(String) carries its string in the field s.    *)
(* Strings are compared as Rust compares them: exactly, case-sensitively.  *)
(***************************************************************************)
EXTENDS Integers, Sequences, FiniteSets, TLC

VARIABLES
    pc,        \* position of the scenario that is running
    codec,     \* enum codec: the enum, the JSON input, the decoded value, the encoded string
    builder,   \* the Gpt5RequestBuilder (self)
    hist,      \* history of the builder calls made so far (what each setter was last given)
    req,       \* the Gpt5Request returned by build()
    diag,      \* the warnings validate() logged
    payload,   \* the JSON response body
    resp,      \* the Gpt5Response decoded from the payload
    result,    \* what the last accessor call, or simple(), returned
    client,    \* the Gpt5Client (api_key and base_url)
    calls,     \* the calls of request() in flight: each one's request, position, reply and outcome
    wire       \* for each call, the HTTP POSTs it has made

vars == <<pc, codec, builder, hist, req, diag, payload, resp, result, client, calls, wire>>

---------------------------------------------------------------------------
(* Option, Result and JSON values *)

None == [some |-> FALSE]

Some(x) == [some |-> TRUE, v |-> x]

Ok(x) == [ok |-> TRUE, v |-> x]

Err(m) == [ok |-> FALSE, err |-> m]

JNull == [t |-> "null"]

JNum(n) == [t |-> "number", n |-> n]

JStr(s) == [t |-> "string", s |-> s]

JArr(a) == [t |-> "array", a |-> a]

JObj(o) == [t |-> "object", o |-> o]

Min(a, b) == IF a <= b THEN a ELSE b

---------------------------------------------------------------------------
(* Open enums: enums.rs *)

Unknown(s) == [tag |-> "Unknown", s |-> s]

Named(n) == [tag |-> n]

Enums ==
    {"ReasoningEffort", "VerbosityLevel", "OutputType", "ContentType",
     "Status", "Role", "FormatType"}

\* The named (non catch-all) variants each enum declares.
NamedVariants(e) ==
    CASE e = "ReasoningEffort" -> {Named("Low"), Named("Medium"), Named("High")}
      [] e = "VerbosityLevel" -> {Named("Low"), Named("Medium"), Named("High")}
      [] e = "OutputType" -> {Named("Message"), Named("FunctionCall")}
      [] e = "ContentType" -> {Named("OutputText")}
      [] e = "Status" ->
            {Named("InProgress"), Named("Completed"), Named("RequiresAction"),
             Named("Failed")}
      [] e = "Role" ->
            {Named("User"), Named("Assistant"), Named("Tool"), Named("System")}
      [] e = "FormatType" -> {Named("Markdown"), Named("PlainText")}

\* String::deserialize: a JSON string decodes to its text, anything else is
\* an error of the deserializer.
String_deserialize(j) ==
    IF j.t = "string" THEN Ok(j.s) ELSE Err("invalid type: expected a string")

ReasoningEffort_serialize(v) ==
    CASE v.tag = "Low" -> JStr("low")
      [] v.tag = "Medium" -> JStr("medium")
      [] v.tag = "High" -> JStr("high")
      [] v.tag = "Unknown" -> JStr(v.s)

\* ASCII lower case of the sample strings.
to_ascii_lowercase(s) ==
    CASE s = "Low" -> "low"
      [] s = "COMPLETED" -> "completed"
      [] OTHER -> s

\* ReasoningEffort's decode matching without regard to case.
ReasoningEffort_deserialize_ignoring_case(j) ==
    LET r == String_deserialize(j) IN
    IF ~r.ok THEN r
    ELSE Ok(CASE to_ascii_lowercase(r.v) = "low" -> Named("Low")
              [] to_ascii_lowercase(r.v) = "medium" -> Named("Medium")
              [] to_ascii_lowercase(r.v) = "high" -> Named("High")
              [] OTHER -> Unknown(r.v))

ReasoningEffort_deserialize(j) ==
    LET r == String_deserialize(j) IN
    IF ~r.ok THEN r
    ELSE Ok(CASE r.v = "low" -> Named("Low")
              [] r.v = "medium" -> Named("Medium")
              [] r.v = "high" -> Named("High")
              [] OTHER -> Unknown(r.v))

VerbosityLevel_serialize(v) ==
    CASE v.tag = "Low" -> JStr("low")
      [] v.tag = "Medium" -> JStr("medium")
      [] v.tag = "High" -> JStr("high")
      [] v.tag = "Unknown" -> JStr(v.s)

VerbosityLevel_deserialize(j) ==
    LET r == String_deserialize(j) IN
    IF ~r.ok THEN r
    ELSE Ok(CASE r.v = "low" -> Named("Low")
              [] r.v = "medium" -> Named("Medium")
              [] r.v = "high" -> Named("High")
              [] OTHER -> Unknown(r.v))

OutputType_serialize(v) ==
    CASE v.tag = "Message" -> JStr("message")
      [] v.tag = "FunctionCall" -> JStr("function_call")
      [] v.tag = "Unknown" -> JStr(v.s)

OutputType_deserialize(j) ==
    LET r == String_deserialize(j) IN
    IF ~r.ok THEN r
    ELSE Ok(CASE r.v = "message" -> Named("Message")
              [] r.v = "function_call" -> Named("FunctionCall")
              [] OTHER -> Unknown(r.v))

ContentType_serialize(v) ==
    CASE v.tag = "OutputText" -> JStr("output_text")
      [] v.tag = "Unknown" -> JStr(v.s)

ContentType_deserialize(j) ==
    LET r == String_deserialize(j) IN
    IF ~r.ok THEN r
    ELSE Ok(CASE r.v = "output_text" -> Named("OutputText")
              [] OTHER -> Unknown(r.v))

Status_serialize(v) ==
    CASE v.tag = "InProgress" -> JStr("in_progress")
      [] v.tag = "Completed" -> JStr("completed")
      [] v.tag = "RequiresAction" -> JStr("requires_action")
      [] v.tag = "Failed" -> JStr("failed")
      [] v.tag = "Unknown" -> JStr(v.s)

\* Status's decode with the requires_action arm left out.
Status_deserialize_missing_arm(j) ==
    LET r == String_deserialize(j) IN
    IF ~r.ok THEN r
    ELSE Ok(CASE r.v = "in_progress" -> Named("InProgress")
              [] r.v = "completed" -> Named("Completed")
              [] r.v = "failed" -> Named("Failed")
              [] OTHER -> Unknown(r.v))

Status_deserialize(j) ==
    LET r == String_deserialize(j) IN
    IF ~r.ok THEN r
    ELSE Ok(CASE r.v = "in_progress" -> Named("InProgress")
              [] r.v = "completed" -> Named("Completed")
              [] r.v = "requires_action" -> Named("RequiresAction")
              [] r.v = "failed" -> Named("Failed")
              [] OTHER -> Unknown(r.v))

Role_serialize(v) ==
    CASE v.tag = "User" -> JStr("user")
      [] v.tag = "Assistant" -> JStr("assistant")
      [] v.tag = "Tool" -> JStr("tool")
      [] v.tag = "System" -> JStr("system")
      [] v.tag = "Unknown" -> JStr(v.s)

\* Role's decode with the tool arm left out.
Role_deserialize_missing_arm(j) ==
    LET r == String_deserialize(j) IN
    IF ~r.ok THEN r
    ELSE Ok(CASE r.v = "user" -> Named("User")
              [] r.v = "assistant" -> Named("Assistant")
              [] r.v = "system" -> Named("System")
              [] OTHER -> Unknown(r.v))

Role_deserialize(j) ==
    LET r == String_deserialize(j) IN
    IF ~r.ok THEN r
    ELSE Ok(CASE r.v = "user" -> Named("User")
              [] r.v = "assistant" -> Named("Assistant")
              [] r.v = "tool" -> Named("Tool")
              [] r.v = "system" -> Named("System")
              [] OTHER -> Unknown(r.v))

FormatType_serialize(v) ==
    CASE v.tag = "Markdown" -> JStr("markdown")
      [] v.tag = "PlainText" -> JStr("plain_text")
      [] v.tag = "Unknown" -> JStr(v.s)

FormatType_deserialize(j) ==
    LET r == String_deserialize(j) IN
    IF ~r.ok THEN r
    ELSE Ok(CASE r.v = "markdown" -> Named("Markdown")
              [] r.v = "plain_text" -> Named("PlainText")
              [] OTHER -> Unknown(r.v))

\* serde's dispatch to the Serialize impl of the value's type.
EnumSerialize(e, v) ==
    CASE e = "ReasoningEffort" -> ReasoningEffort_serialize(v)
      [] e = "VerbosityLevel" -> VerbosityLevel_serialize(v)
      [] e = "OutputType" -> OutputType_serialize(v)
      [] e = "ContentType" -> ContentType_serialize(v)
      [] e = "Status" -> Status_serialize(v)
      [] e = "Role" -> Role_serialize(v)
      [] e = "FormatType" -> FormatType_serialize(v)

\* serde's dispatch to the Deserialize impl of the expected type.
EnumDeserialize(e, j) ==
    CASE e = "ReasoningEffort" -> ReasoningEffort_deserialize(j)
      [] e = "VerbosityLevel" -> VerbosityLevel_deserialize(j)
      [] e = "OutputType" -> OutputType_deserialize(j)
      [] e = "ContentType" -> ContentType_deserialize(j)
      [] e = "Status" -> Status_deserialize(j)
      [] e = "Role" -> Role_deserialize(j)
      [] e = "FormatType" -> FormatType_deserialize(j)

\* The wire strings an enum knows: what its named variants serialize to.
KnownWire(e) == {EnumSerialize(e, v).s : v \in NamedVariants(e)}

AllKnownWire == UNION {KnownWire(e) : e \in Enums}

---------------------------------------------------------------------------
(* Inputs of the enum codec scenario *)

\* Strings no enum knows; the first NumUnknown of them are tried.
SampleUnknown ==
    <<"Low", "custom_effort", "queued", "", "COMPLETED", "incomplete", " low">>

NumUnknown == 4

UnknownStrings ==
    {SampleUnknown[i] : i \in 1..Min(NumUnknown, Len(SampleUnknown))}

\* Every wire string some enum knows is tried on every enum.
WireStrings == AllKnownWire \cup UnknownStrings

WireValues == {JStr(s) : s \in WireStrings} \cup {JNull, JNum(1)}

---------------------------------------------------------------------------
(* Model identifiers: models.rs *)

Gpt5 == [tag |-> "Gpt5"]

Gpt5Mini == [tag |-> "Gpt5Mini"]

Gpt5Nano == [tag |-> "Gpt5Nano"]

Custom(name) == [tag |-> "Custom", s |-> name]

as_str(model) ==
    CASE model.tag = "Gpt5" -> "gpt-5"
      [] model.tag = "Gpt5Mini" -> "gpt-5-mini"
      [] model.tag = "Gpt5Nano" -> "gpt-5-nano"
      [] model.tag = "Custom" -> model.s

---------------------------------------------------------------------------
(* Requests and their builder: requests.rs *)

\* struct Tool
Tool(tool_type, name, description, parameters) ==
    [tool_type |-> tool_type, name |-> name, description |-> description,
     parameters |-> parameters]

\* struct WebSearchConfig
WebSearchConfig(enabled, name, description, query, max_results) ==
    [enabled |-> enabled, name |-> name, description |-> description,
     query |-> query, max_results |-> max_results]

\* #[derive(Default)] for WebSearchConfig: false and None throughout.
WebSearchConfig_default == WebSearchConfig(FALSE, None, None, None, None)

\* The keys param() is called with.  A HashMap<String, Value> is a function
\* from these keys to Option<Value>: None for a key the map does not hold.
ParamKeys == {"custom_param", "temperature"}

HashMap_new == [k \in ParamKeys |-> None]

HashMap_insert(m, key, value) == [m EXCEPT ![key] = Some(value)]

HashMap_keys(m) == {k \in DOMAIN m : m[k].some}

\* Gpt5RequestBuilder::new
new(model) ==
    [model |-> model,
     input |-> "",
     reasoning |-> None,
     tools |-> None,
     tool_choice |-> None,
     max_output_tokens |-> None,
     top_p |-> None,
     text |-> None,
     instructions |-> None,
     web_search |-> None,
     parameters |-> HashMap_new]

input(self, text) == [self EXCEPT !.input = text]

\* web_search_enabled that keeps the flag set once a query or a cap is there.
web_search_enabled_unless_configured(self, enabled) ==
    LET config == IF self.web_search.some THEN self.web_search.v
                  ELSE WebSearchConfig_default
        keep == config.query.some \/ config.max_results.some
    IN  [self EXCEPT !.web_search = Some([config EXCEPT !.enabled = enabled \/ keep])]

web_search_enabled(self, enabled) ==
    LET config == IF self.web_search.some THEN self.web_search.v
                  ELSE WebSearchConfig_default
    IN  [self EXCEPT !.web_search = Some([config EXCEPT !.enabled = enabled])]

\* web_search_query that starts from the default record and never sets the
\* flag.
web_search_query_not_enabling(self, query) ==
    LET config == IF self.web_search.some THEN self.web_search.v
                  ELSE WebSearchConfig_default
    IN  [self EXCEPT !.web_search = Some([config EXCEPT !.query = Some(query)])]

web_search_query(self, query) ==
    LET config == IF self.web_search.some THEN self.web_search.v
                  ELSE [WebSearchConfig_default EXCEPT !.enabled = TRUE]
        withQuery == [config EXCEPT !.query = Some(query)]
        enabledNow == IF ~withQuery.enabled
                      THEN [withQuery EXCEPT !.enabled = TRUE]
                      ELSE withQuery
    IN  [self EXCEPT !.web_search = Some(enabledNow)]

web_search_max_results(self, max_results) ==
    LET config == IF self.web_search.some THEN self.web_search.v
                  ELSE [WebSearchConfig_default EXCEPT !.enabled = TRUE]
        withCap == [config EXCEPT !.max_results = Some(max_results)]
        enabledNow == IF ~withCap.enabled
                      THEN [withCap EXCEPT !.enabled = TRUE]
                      ELSE withCap
    IN  [self EXCEPT !.web_search = Some(enabledNow)]

user_text(self, text) == input(self, text)

instructions(self, instr) == [self EXCEPT !.instructions = Some(instr)]

\* tools that extends the list of an earlier call.
tools_appending(self, list) ==
    [self EXCEPT !.tools = Some((IF self.tools.some THEN self.tools.v ELSE <<>>)
                                \o list)]

tools(self, list) == [self EXCEPT !.tools = Some(list)]

tool_choice(self, choice) == [self EXCEPT !.tool_choice = Some(choice)]

reasoning_effort(self, effort) ==
    [self EXCEPT !.reasoning = Some([effort |-> effort])]

verbosity(self, level) ==
    [self EXCEPT !.text = Some([verbosity |-> Some(level)])]

max_output_tokens(self, tokens) ==
    [self EXCEPT !.max_output_tokens = Some(tokens)]

top_p(self, p) == [self EXCEPT !.top_p = Some(p)]

param(self, key, value) ==
    [self EXCEPT !.parameters = HashMap_insert(@, key, value)]

\* str::trim on the input texts of this model: the only texts that start or
\* end with white space are made of white space alone.
BlankTexts == {"", " ", "  "}

trim(s) == IF s \in BlankTexts THEN "" ELSE s

\* Below this max_output_tokens is reported as very low.
TokensLow == 10

\* Above this max_output_tokens is reported as very high.
TokensHigh == 100000

\* top_p is an f64; the model holds it in tenths, so 1.0 is 10.
TopPOne == 10

\* validate(&self): the warnings it logs.  It borrows the builder immutably
\* and returns nothing.
validate(self) ==
    (IF trim(self.input) = "" THEN {"input is empty"} ELSE {})
    \cup (IF self.max_output_tokens.some
          THEN (IF self.max_output_tokens.v < TokensLow
                THEN {"max_output_tokens is very low"}
                ELSE IF self.max_output_tokens.v > TokensHigh
                     THEN {"max_output_tokens is very high"}
                     ELSE {})
          ELSE {})
    \cup (IF self.top_p.some /\ ~(0 <= self.top_p.v /\ self.top_p.v <= TopPOne)
          THEN {"top_p should be between 0.0 and 1.0"}
          ELSE {})
    \cup (IF self.reasoning.some /\ self.text.some /\ self.text.v.verbosity.some
          THEN (IF self.reasoning.v.effort = Named("High")
                   /\ self.text.v.verbosity.v = Named("Low")
                THEN {"high reasoning effort with low verbosity"}
                ELSE IF self.reasoning.v.effort = Named("Low")
                        /\ self.text.v.verbosity.v = Named("High")
                     THEN {"low reasoning effort with high verbosity"}
                     ELSE {})
          ELSE {})
    \cup (IF self.web_search.some /\ self.web_search.v.max_results.some
             /\ self.web_search.v.max_results.v = 0
          THEN {"web_search_max_results is zero"}
          ELSE {})
    \cup (IF self.tools.some /\ self.tools.v = <<>>
          THEN {"empty tools array"}
          ELSE {})

\* to_tool that passes the record's name, description and query on.
to_tool_describing(config) ==
    Tool("web_search", config.name, config.description,
         IF config.query.some THEN Some(JStr(config.query.v)) ELSE None)

\* WebSearchConfig::to_tool
to_tool(config) == Tool("web_search", None, None, None)

\* build that adds the web_search tool whenever a web-search record exists,
\* enabled or not.
build_ignoring_enabled(self) ==
    LET explicit == IF self.tools.some THEN self.tools.v ELSE <<>>
        already_configured ==
            \E i \in 1..Len(explicit) : explicit[i].tool_type = "web_search"
        merged == IF self.web_search.some /\ ~already_configured
                  THEN Append(explicit, to_tool(self.web_search.v))
                  ELSE explicit
    IN  [model |-> as_str(self.model),
         input |-> self.input,
         reasoning |-> self.reasoning,
         tools |-> IF merged = <<>> THEN None ELSE Some(merged),
         tool_choice |-> self.tool_choice,
         max_output_tokens |-> self.max_output_tokens,
         top_p |-> self.top_p,
         text |-> self.text,
         instructions |-> self.instructions,
         web_search_config |-> self.web_search,
         parameters |-> self.parameters]

\* build that appends the web_search tool without looking at the explicit
\* list.
build_always_appending(self) ==
    LET explicit == IF self.tools.some THEN self.tools.v ELSE <<>>
        enabled == self.web_search.some /\ self.web_search.v.enabled
        merged == IF enabled
                  THEN Append(explicit, to_tool(self.web_search.v))
                  ELSE explicit
    IN  [model |-> as_str(self.model),
         input |-> self.input,
         reasoning |-> self.reasoning,
         tools |-> IF merged = <<>> THEN None ELSE Some(merged),
         tool_choice |-> self.tool_choice,
         max_output_tokens |-> self.max_output_tokens,
         top_p |-> self.top_p,
         text |-> self.text,
         instructions |-> self.instructions,
         web_search_config |-> IF enabled THEN self.web_search ELSE None,
         parameters |-> self.parameters]

\* build that hands an explicit tool list on as it is, empty or not.
build_keeping_empty(self) ==
    LET explicit == IF self.tools.some THEN self.tools.v ELSE <<>>
        enabled == self.web_search.some /\ self.web_search.v.enabled
        already_configured ==
            \E i \in 1..Len(explicit) : explicit[i].tool_type = "web_search"
        merged == IF enabled /\ ~already_configured
                  THEN Append(explicit, to_tool(self.web_search.v))
                  ELSE explicit
    IN  [model |-> as_str(self.model),
         input |-> self.input,
         reasoning |-> self.reasoning,
         tools |-> IF merged = <<>> /\ ~self.tools.some THEN None ELSE Some(merged),
         tool_choice |-> self.tool_choice,
         max_output_tokens |-> self.max_output_tokens,
         top_p |-> self.top_p,
         text |-> self.text,
         instructions |-> self.instructions,
         web_search_config |-> IF enabled THEN self.web_search ELSE None,
         parameters |-> self.parameters]

\* build that brings max_output_tokens back into the range validate() finds
\* reasonable.
build_clamping(self) ==
    LET explicit == IF self.tools.some THEN self.tools.v ELSE <<>>
        enabled == self.web_search.some /\ self.web_search.v.enabled
        already_configured ==
            \E i \in 1..Len(explicit) : explicit[i].tool_type = "web_search"
        merged == IF enabled /\ ~already_configured
                  THEN Append(explicit, to_tool(self.web_search.v))
                  ELSE explicit
        clamped == IF ~self.max_output_tokens.some THEN None
                   ELSE IF self.max_output_tokens.v < TokensLow THEN Some(TokensLow)
                   ELSE IF self.max_output_tokens.v > TokensHigh THEN Some(TokensHigh)
                   ELSE self.max_output_tokens
    IN  [model |-> as_str(self.model),
         input |-> self.input,
         reasoning |-> self.reasoning,
         tools |-> IF merged = <<>> THEN None ELSE Some(merged),
         tool_choice |-> self.tool_choice,
         max_output_tokens |-> clamped,
         top_p |-> self.top_p,
         text |-> self.text,
         instructions |-> self.instructions,
         web_search_config |-> IF enabled THEN self.web_search ELSE None,
         parameters |-> self.parameters]

\* build that keeps the web-search record whether it is enabled or not.
build_retaining_disabled(self) ==
    LET explicit == IF self.tools.some THEN self.tools.v ELSE <<>>
        enabled == self.web_search.some /\ self.web_search.v.enabled
        already_configured ==
            \E i \in 1..Len(explicit) : explicit[i].tool_type = "web_search"
        merged == IF enabled /\ ~already_configured
                  THEN Append(explicit, to_tool(self.web_search.v))
                  ELSE explicit
    IN  [model |-> as_str(self.model),
         input |-> self.input,
         reasoning |-> self.reasoning,
         tools |-> IF merged = <<>> THEN None ELSE Some(merged),
         tool_choice |-> self.tool_choice,
         max_output_tokens |-> self.max_output_tokens,
         top_p |-> self.top_p,
         text |-> self.text,
         instructions |-> self.instructions,
         web_search_config |-> self.web_search,
         parameters |-> self.parameters]

\* build that puts the web_search tool in front of the explicit list.
build_prepending(self) ==
    LET explicit == IF self.tools.some THEN self.tools.v ELSE <<>>
        enabled == self.web_search.some /\ self.web_search.v.enabled
        already_configured ==
            \E i \in 1..Len(explicit) : explicit[i].tool_type = "web_search"
        merged == IF enabled /\ ~already_configured
                  THEN <<to_tool(self.web_search.v)>> \o explicit
                  ELSE explicit
    IN  [model |-> as_str(self.model),
         input |-> self.input,
         reasoning |-> self.reasoning,
         tools |-> IF merged = <<>> THEN None ELSE Some(merged),
         tool_choice |-> self.tool_choice,
         max_output_tokens |-> self.max_output_tokens,
         top_p |-> self.top_p,
         text |-> self.text,
         instructions |-> self.instructions,
         web_search_config |-> IF enabled THEN self.web_search ELSE None,
         parameters |-> self.parameters]

\* Gpt5RequestBuilder::build, after its call of validate().
build(self) ==
    LET explicit == IF self.tools.some THEN self.tools.v ELSE <<>>
        enabled == self.web_search.some /\ self.web_search.v.enabled
        already_configured ==
            \E i \in 1..Len(explicit) : explicit[i].tool_type = "web_search"
        merged == IF enabled /\ ~already_configured
                  THEN Append(explicit, to_tool(self.web_search.v))
                  ELSE explicit
    IN  [model |-> as_str(self.model),
         input |-> self.input,
         reasoning |-> self.reasoning,
         tools |-> IF merged = <<>> THEN None ELSE Some(merged),
         tool_choice |-> self.tool_choice,
         max_output_tokens |-> self.max_output_tokens,
         top_p |-> self.top_p,
         text |-> self.text,
         instructions |-> self.instructions,
         web_search_config |-> IF enabled THEN self.web_search ELSE None,
         parameters |-> self.parameters]

---------------------------------------------------------------------------
(* Serialization of a request: the derived Serialize of requests.rs *)

\* RequestReasoning: one key, effort.
RequestReasoning_serialize(r) ==
    JObj([k \in {"effort"} |-> ReasoningEffort_serialize(r.effort)])

\* RequestText: verbosity is skipped when it is None.
RequestText_serialize(x) ==
    JObj([k \in (IF x.verbosity.some THEN {"verbosity"} ELSE {}) |->
            VerbosityLevel_serialize(x.verbosity.v)])

\* Tool: tool_type is renamed to type; name, description and parameters are
\* skipped when they are None.
Tool_serialize(x) ==
    JObj([k \in {"type"}
                \cup (IF x.name.some THEN {"name"} ELSE {})
                \cup (IF x.description.some THEN {"description"} ELSE {})
                \cup (IF x.parameters.some THEN {"parameters"} ELSE {}) |->
            CASE k = "type" -> JStr(x.tool_type)
              [] k = "name" -> JStr(x.name.v)
              [] k = "description" -> JStr(x.description.v)
              [] k = "parameters" -> x.parameters.v])

\* Gpt5Request serialized without skip_serializing_if on tools: an absent
\* tool list becomes "tools": null.
Gpt5Request_serialize_null_tools(r) ==
    JObj([k \in {"model", "input", "tools"}
                \cup (IF r.reasoning.some THEN {"reasoning"} ELSE {})
                \cup (IF r.tool_choice.some THEN {"tool_choice"} ELSE {})
                \cup (IF r.max_output_tokens.some THEN {"max_output_tokens"} ELSE {})
                \cup (IF r.top_p.some THEN {"top_p"} ELSE {})
                \cup (IF r.text.some THEN {"text"} ELSE {})
                \cup (IF r.instructions.some THEN {"instructions"} ELSE {})
                \cup HashMap_keys(r.parameters) |->
            CASE k = "model" -> JStr(r.model)
              [] k = "input" -> JStr(r.input)
              [] k = "reasoning" -> RequestReasoning_serialize(r.reasoning.v)
              [] k = "tools" ->
                    IF r.tools.some
                    THEN JArr([i \in 1..Len(r.tools.v) |-> Tool_serialize(r.tools.v[i])])
                    ELSE JNull
              [] k = "tool_choice" -> JStr(r.tool_choice.v)
              [] k = "max_output_tokens" -> JNum(r.max_output_tokens.v)
              [] k = "top_p" -> JNum(r.top_p.v)
              [] k = "text" -> RequestText_serialize(r.text.v)
              [] k = "instructions" -> JStr(r.instructions.v)
              [] OTHER -> r.parameters[k].v])

\* Gpt5Request: model and input always; every Option field is skipped when
\* it is None; web_search_config is never serialized; parameters is
\* flattened into the top level.
Gpt5Request_serialize(r) ==
    JObj([k \in {"model", "input"}
                \cup (IF r.reasoning.some THEN {"reasoning"} ELSE {})
                \cup (IF r.tools.some THEN {"tools"} ELSE {})
                \cup (IF r.tool_choice.some THEN {"tool_choice"} ELSE {})
                \cup (IF r.max_output_tokens.some THEN {"max_output_tokens"} ELSE {})
                \cup (IF r.top_p.some THEN {"top_p"} ELSE {})
                \cup (IF r.text.some THEN {"text"} ELSE {})
                \cup (IF r.instructions.some THEN {"instructions"} ELSE {})
                \cup HashMap_keys(r.parameters) |->
            CASE k = "model" -> JStr(r.model)
              [] k = "input" -> JStr(r.input)
              [] k = "reasoning" -> RequestReasoning_serialize(r.reasoning.v)
              [] k = "tools" ->
                    JArr([i \in 1..Len(r.tools.v) |-> Tool_serialize(r.tools.v[i])])
              [] k = "tool_choice" -> JStr(r.tool_choice.v)
              [] k = "max_output_tokens" -> JNum(r.max_output_tokens.v)
              [] k = "top_p" -> JNum(r.top_p.v)
              [] k = "text" -> RequestText_serialize(r.text.v)
              [] k = "instructions" -> JStr(r.instructions.v)
              [] OTHER -> r.parameters[k].v])

---------------------------------------------------------------------------
(* Inputs of the builder scenario *)

\* A variable a scenario does not use.
Idle == [idle |-> TRUE]

\* Setter calls made before build().
MaxCalls == 3

\* Length of an explicit tool list.
MaxTools == 2

Models == {Gpt5, Gpt5Nano, Custom("my-model")}

InputTexts == {"", "  ", "Hello, world!"}

InstructionTexts == {"Keep it short", "Be helpful"}

Efforts == {Named("Low"), Named("High")}

Verbosities == {Named("Low"), Named("High")}

weather_tool ==
    Tool("function", Some("get_weather"), Some("Get current weather"),
         Some(JObj([k \in {"type"} |-> JStr("object")])))

search_tool == Tool("web_search", Some("search"), Some("Search the web"), None)

ToolSamples == {weather_tool, search_tool}

ToolLists == UNION {[1..n -> ToolSamples] : n \in 0..MaxTools}

ToolChoices == {"auto", "none"}

\* u32 values on both sides of the two thresholds of validate().
TokenValues == {5, 1000, 100001}

\* f64 values in tenths: -0.5, 0.9, 1.5.
TopPValues == {-5, 9, 15}

ParamValues == {JStr("custom_value"), JNum(1)}

Queries == {"rust news", "weather"}

\* u8 values.
ResultCaps == {0, 5}

Setters ==
    {"input", "instructions", "reasoning_effort", "verbosity", "tools",
     "tool_choice", "max_output_tokens", "top_p", "web_search_enabled",
     "web_search_query", "web_search_max_results"}

\* No call made yet.
NoCalls ==
    [last |-> [s \in Setters |-> None],
     params |-> [k \in ParamKeys |-> None],
     overwritten |-> {},
     web_search_last |-> None,
     calls |-> 0]

\* The history after setter s was called with a.
Logged(s, a) ==
    [hist EXCEPT !.last[s] = Some(a),
                 !.calls = @ + 1,
                 !.overwritten = IF hist.last[s].some /\ hist.last[s].v # a
                                 THEN @ \cup {s} ELSE @]

\* The history after the web-search setter s was called with a: it is now
\* the last web-search setter called.
LoggedWebSearch(s, a) ==
    [Logged(s, a) EXCEPT !.web_search_last = Some([setter |-> s, arg |-> a])]

\* The history after param(key, value).
LoggedParam(key, value) ==
    [hist EXCEPT !.params[key] = Some(value),
                 !.calls = @ + 1,
                 !.overwritten = IF hist.params[key].some /\ hist.params[key].v # value
                                 THEN @ \cup {"param"} ELSE @]

---------------------------------------------------------------------------
(* The builder scenario: new(model), a chain of setters, build() *)

InitBuilder ==
    /\ pc = "building"
    /\ \E m \in Models : builder = new(m)
    /\ hist = NoCalls
    /\ req = Idle
    /\ diag = {}
    /\ codec = Idle
    /\ payload = Idle
    /\ resp = Idle
    /\ result = Idle
    /\ client = Idle
    /\ calls = Idle
    /\ wire = Idle

CanCall == pc = "building" /\ hist.calls < MaxCalls

Chained == UNCHANGED <<pc, req, diag, codec, payload, resp, result, client, calls, wire>>

CallInput ==
    /\ CanCall
    /\ \E x \in InputTexts :
        /\ builder' = input(builder, x)
        /\ hist' = Logged("input", x)
    /\ Chained

CallInstructions ==
    /\ CanCall
    /\ \E x \in InstructionTexts :
        /\ builder' = instructions(builder, x)
        /\ hist' = Logged("instructions", x)
    /\ Chained

CallReasoningEffort ==
    /\ CanCall
    /\ \E x \in Efforts :
        /\ builder' = reasoning_effort(builder, x)
        /\ hist' = Logged("reasoning_effort", x)
    /\ Chained

CallVerbosity ==
    /\ CanCall
    /\ \E x \in Verbosities :
        /\ builder' = verbosity(builder, x)
        /\ hist' = Logged("verbosity", x)
    /\ Chained

CallTools ==
    /\ CanCall
    /\ \E x \in ToolLists :
        /\ builder' = tools(builder, x)
        /\ hist' = Logged("tools", x)
    /\ Chained

CallToolChoice ==
    /\ CanCall
    /\ \E x \in ToolChoices :
        /\ builder' = tool_choice(builder, x)
        /\ hist' = Logged("tool_choice", x)
    /\ Chained

CallMaxOutputTokens ==
    /\ CanCall
    /\ \E x \in TokenValues :
        /\ builder' = max_output_tokens(builder, x)
        /\ hist' = Logged("max_output_tokens", x)
    /\ Chained

CallTopP ==
    /\ CanCall
    /\ \E x \in TopPValues :
        /\ builder' = top_p(builder, x)
        /\ hist' = Logged("top_p", x)
    /\ Chained

CallParam ==
    /\ CanCall
    /\ \E k \in ParamKeys, x \in ParamValues :
        /\ builder' = param(builder, k, x)
        /\ hist' = LoggedParam(k, x)
    /\ Chained

CallWebSearchEnabled ==
    /\ CanCall
    /\ \E x \in BOOLEAN :
        /\ builder' = web_search_enabled(builder, x)
        /\ hist' = LoggedWebSearch("web_search_enabled", x)
    /\ Chained

CallWebSearchQuery ==
    /\ CanCall
    /\ \E x \in Queries :
        /\ builder' = web_search_query(builder, x)
        /\ hist' = LoggedWebSearch("web_search_query", x)
    /\ Chained

CallWebSearchMaxResults ==
    /\ CanCall
    /\ \E x \in ResultCaps :
        /\ builder' = web_search_max_results(builder, x)
        /\ hist' = LoggedWebSearch("web_search_max_results", x)
    /\ Chained

\* build(self): validate() logs its warnings, then the request is assembled
\* and the builder is consumed.
CallBuild ==
    /\ pc = "building"
    /\ diag' = validate(builder)
    /\ req' = build(builder)
    /\ pc' = "built"
    /\ UNCHANGED <<builder, hist, codec, payload, resp, result, client, calls, wire>>

NextBuilder ==
    \/ CallInput
    \/ CallInstructions
    \/ CallReasoningEffort
    \/ CallVerbosity
    \/ CallTools
    \/ CallToolChoice
    \/ CallMaxOutputTokens
    \/ CallTopP
    \/ CallParam
    \/ CallWebSearchEnabled
    \/ CallWebSearchQuery
    \/ CallWebSearchMaxResults
    \/ CallBuild

Spec == InitBuilder /\ [][NextBuilder]_vars

---------------------------------------------------------------------------
(* Properties of the builder *)

Called(s) == hist.last[s].some

ParamCalled == \E k \in ParamKeys : hist.params[k].some

Built == pc = "built"

\* The built tool list, empty when the request has none.
BuiltTools == IF req.tools.some THEN req.tools.v ELSE <<>>

HasKind(list, kind) == \E i \in 1..Len(list) : list[i].tool_type = kind

\* Web search is enabled when build() is called.
EnabledAtBuild == builder.web_search.some /\ builder.web_search.v.enabled

OnlyInputCalled ==
    /\ Built
    /\ Called("input")
    /\ \A s \in Setters \ {"input"} : ~Called(s)
    /\ ~ParamCalled

\* C3: a request built after new(model) and input(text) alone has every
\* optional field absent and an empty parameter bag, and serializes to an
\* object with exactly the keys model and input, holding the model's wire
\* string and the text, and no null value.
InputOnlyRequestIsMinimal ==
    OnlyInputCalled =>
        /\ req.reasoning = None
        /\ req.tools = None
        /\ req.tool_choice = None
        /\ req.max_output_tokens = None
        /\ req.top_p = None
        /\ req.text = None
        /\ req.instructions = None
        /\ req.web_search_config = None
        /\ HashMap_keys(req.parameters) = {}
        /\ LET o == Gpt5Request_serialize(req).o IN
            /\ DOMAIN o = {"model", "input"}
            /\ o["model"] = JStr(as_str(builder.model))
            /\ o["input"] = JStr(hist.last["input"].v)
            /\ \A k \in DOMAIN o : o[k].t # "null"

InputOnlyRequestBuilt ==
    /\ OnlyInputCalled
    /\ Gpt5Request_serialize(req).o =
        [k \in {"model", "input"} |->
            IF k = "model" THEN JStr("gpt-5-nano") ELSE JStr("Hello, world!")]

QueryOrCapWithoutEnable ==
    /\ Built
    /\ Called("web_search_query") \/ Called("web_search_max_results")
    /\ ~Called("web_search_enabled")
    /\ ~Called("tools")

\* C4: when web_search_query or web_search_max_results was called,
\* web_search_enabled never was and no explicit tool list was set, the built
\* tool list is exactly one entry of kind web_search and the retained
\* web-search record has enabled = true.
QueryOrCapEnablesWebSearch ==
    QueryOrCapWithoutEnable =>
        /\ req.tools.some
        /\ Len(req.tools.v) = 1
        /\ req.tools.v[1].tool_type = "web_search"
        /\ req.web_search_config.some
        /\ req.web_search_config.v.enabled

QueryOnlyBuilt ==
    /\ QueryOrCapWithoutEnable
    /\ Called("web_search_query")
    /\ ~Called("web_search_max_results")
    /\ req.web_search_config.some
    /\ req.web_search_config.v.query = hist.last["web_search_query"]

\* web_search_enabled was called and its last call passed false; the query
\* and the cap were never set and no explicit tool list was set.
DisabledWithoutQueryOrCap ==
    /\ Built
    /\ hist.last["web_search_enabled"] = Some(FALSE)
    /\ ~Called("web_search_query")
    /\ ~Called("web_search_max_results")
    /\ ~Called("tools")

ExplicitWebSearchAndEnabled ==
    /\ Built
    /\ Called("tools")
    /\ HasKind(hist.last["tools"].v, "web_search")
    /\ EnabledAtBuild

\* C6: when the explicit tool list already holds an entry of kind
\* web_search and web search is enabled at build time, build() appends
\* nothing: the built list is the explicit list.
ExplicitWebSearchNotDuplicated ==
    ExplicitWebSearchAndEnabled => req.tools = Some(hist.last["tools"].v)

ExplicitWebSearchKept ==
    /\ ExplicitWebSearchAndEnabled
    /\ hist.last["tools"].v = <<weather_tool, search_tool>>
    /\ req.web_search_config.some

\* C7: the built tool list is absent or non-empty, whatever the calls.
BuiltToolsAbsentOrNonEmpty ==
    Built => (req.tools.some => Len(req.tools.v) > 0)

EmptyExplicitToolsBuilt ==
    /\ Built
    /\ hist.last["tools"] = Some(<<>>)
    /\ ~EnabledAtBuild
    /\ req.tools = None

\* C8: for every setter the built request holds the value of the last call
\* only; the explicit tools of the built list are those of the last tools()
\* call (followed at most by the synthesized web_search entry), and each
\* parameter key holds the value of the last param() call for that key.
LastWriteWins ==
    Built =>
        /\ Called("input") => req.input = hist.last["input"].v
        /\ Called("instructions") => req.instructions = hist.last["instructions"]
        /\ Called("reasoning_effort") =>
            req.reasoning = Some([effort |-> hist.last["reasoning_effort"].v])
        /\ Called("verbosity") =>
            req.text = Some([verbosity |-> hist.last["verbosity"]])
        /\ Called("tools") =>
            \/ BuiltTools = hist.last["tools"].v
            \/ /\ EnabledAtBuild
               /\ BuiltTools =
                    Append(hist.last["tools"].v, to_tool(builder.web_search.v))
        /\ Called("tool_choice") => req.tool_choice = hist.last["tool_choice"]
        /\ Called("max_output_tokens") =>
            req.max_output_tokens = hist.last["max_output_tokens"]
        /\ Called("top_p") => req.top_p = hist.last["top_p"]
        /\ \A k \in ParamKeys : req.parameters[k] = hist.params[k]

ToolsOverwrittenBuilt ==
    /\ Built
    /\ "tools" \in hist.overwritten
    /\ hist.last["tools"].v = <<weather_tool>>
    /\ req.tools = Some(<<weather_tool>>)

\* C9: build() returns a request from every builder state, warnings or
\* not, and validation changes no value: input, max_output_tokens and top_p
\* of the built request are the values set (the defaults of new() when
\* never set).
ValidationNeverBlocksNorChanges ==
    /\ pc = "building" => ENABLED CallBuild
    /\ Built =>
        /\ req.input = (IF Called("input") THEN hist.last["input"].v ELSE "")
        /\ req.max_output_tokens = hist.last["max_output_tokens"]
        /\ req.top_p = hist.last["top_p"]

WarnedRequestBuilt ==
    /\ Built
    /\ {"input is empty", "max_output_tokens is very low"} \subseteq diag
    /\ req.input = ""
    /\ req.max_output_tokens = Some(5)

\* The explicit tool list at build time: that of the last tools() call.
ExplicitTools == IF Called("tools") THEN hist.last["tools"].v ELSE <<>>

\* build() appended a tool of its own to the explicit list.
Synthesized == Len(BuiltTools) = Len(ExplicitTools) + 1

\* C22: when web search is enabled at build time the built request retains
\* the accumulated record: its query and its cap are those of the last
\* web_search_query and web_search_max_results calls (absent when never
\* called), its name and description are the defaults. The serialized
\* request has no key for the record, and the tool build() synthesized
\* for it serializes to {"type": "web_search"} alone.
WebSearchRecordRetainedNotSerialized ==
    (Built /\ EnabledAtBuild) =>
        /\ req.web_search_config.some
        /\ req.web_search_config.v.enabled
        /\ req.web_search_config.v.query = hist.last["web_search_query"]
        /\ req.web_search_config.v.max_results = hist.last["web_search_max_results"]
        /\ req.web_search_config.v.name = None
        /\ req.web_search_config.v.description = None
        /\ DOMAIN Gpt5Request_serialize(req).o \subseteq
                {"model", "input", "reasoning", "tools", "tool_choice",
                 "max_output_tokens", "top_p", "text", "instructions"}
                    \cup ParamKeys
        /\ Synthesized =>
            Gpt5Request_serialize(req).o["tools"].a[Len(BuiltTools)]
                = JObj([k \in {"type"} |-> JStr("web_search")])

QueryAndCapRetainedOffTheWire ==
    /\ Built
    /\ EnabledAtBuild
    /\ ~Called("tools")
    /\ req.web_search_config.v.query = Some("rust news")
    /\ req.web_search_config.v.max_results = Some(5)
    /\ Gpt5Request_serialize(req).o["tools"]
            = JArr(<<JObj([k \in {"type"} |-> JStr("web_search")])>>)

\* The last web-search setter called turns web search on.
LastWebSearchSetterEnables ==
    /\ hist.web_search_last.some
    /\ \/ hist.web_search_last.v.setter
                \in {"web_search_query", "web_search_max_results"}
       \/ /\ hist.web_search_last.v.setter = "web_search_enabled"
          /\ hist.web_search_last.v.arg

\* C24: web search is enabled at build time exactly when the last
\* web-search setter called was web_search_query, web_search_max_results or
\* web_search_enabled(true); otherwise (web_search_enabled(false) called
\* last, or no web-search setter at all) build() adds no tool to the
\* explicit list and the built request retains no record.
LastWebSearchSetterDecides ==
    Built =>
        /\ EnabledAtBuild <=> LastWebSearchSetterEnables
        /\ req.web_search_config.some <=> LastWebSearchSetterEnables
        /\ ~LastWebSearchSetterEnables =>
            /\ BuiltTools = ExplicitTools
            /\ req.web_search_config = None

DisabledAfterQueryBuilt ==
    /\ Built
    /\ Called("web_search_query")
    /\ hist.web_search_last = Some([setter |-> "web_search_enabled", arg |-> FALSE])
    /\ builder.web_search.v.query.some
    /\ req.tools = None
    /\ req.web_search_config = None

\* C25: the built request retains a web-search record only when the
\* record has enabled = true, and then the built tool list is present and
\* holds at least one entry of kind web_search.
RetainedRecordIsEnabledWithTool ==
    (Built /\ req.web_search_config.some) =>
        /\ req.web_search_config.v.enabled
        /\ req.tools.some
        /\ HasKind(req.tools.v, "web_search")

RecordRetainedBesideExplicitSearchTool ==
    /\ Built
    /\ req.web_search_config.some
    /\ req.web_search_config.v.max_results = Some(0)
    /\ ExplicitTools = <<search_tool>>
    /\ req.tools = Some(<<search_tool>>)

\* C26: the built tool list starts with the explicit list of the last
\* tools() call and is at most one entry longer; the extra entry is the
\* synthesized web_search tool, placed last. An explicit web_search entry
\* stays in the built list when web search is disabled.
ExplicitToolsArePrefix ==
    Built =>
        /\ Len(BuiltTools) \in {Len(ExplicitTools), Len(ExplicitTools) + 1}
        /\ SubSeq(BuiltTools, 1, Len(ExplicitTools)) = ExplicitTools
        /\ Synthesized =>
            BuiltTools[Len(BuiltTools)] = Tool("web_search", None, None, None)

WebSearchAppendedAfterWeatherTool ==
    /\ Built
    /\ ExplicitTools = <<weather_tool, weather_tool>>
    /\ BuiltTools = <<weather_tool, weather_tool, Tool("web_search", None, None, None)>>

---------------------------------------------------------------------------
(* The enum codec scenario: a JSON value is decoded as one of the open     *)
(* enums, the decoded value is encoded and the encoding is decoded again   *)

InitCodec ==
    /\ pc = "wire"
    /\ \E e \in Enums, j \in WireValues :
        codec = [enum |-> e, wire |-> j, decoded |-> None, encoded |-> None,
                 redecoded |-> None]
    /\ builder = Idle
    /\ hist = Idle
    /\ req = Idle
    /\ diag = {}
    /\ payload = Idle
    /\ resp = Idle
    /\ result = Idle
    /\ client = Idle
    /\ calls = Idle
    /\ wire = Idle

OutsideCodec == UNCHANGED <<builder, hist, req, diag, payload, resp, result, client, calls, wire>>

\* serde_json::from_str::<E>(wire)
Deserialize ==
    /\ pc = "wire"
    /\ codec' = [codec EXCEPT !.decoded = Some(EnumDeserialize(codec.enum, codec.wire))]
    /\ pc' = "decoded"
    /\ OutsideCodec

\* serde_json::to_string(&value) of the value decoded
Serialize ==
    /\ pc = "decoded"
    /\ codec.decoded.v.ok
    /\ codec' = [codec EXCEPT !.encoded = Some(EnumSerialize(codec.enum, codec.decoded.v.v))]
    /\ pc' = "encoded"
    /\ OutsideCodec

\* serde_json::from_str::<E>(..) of the string just encoded
DeserializeEncoded ==
    /\ pc = "encoded"
    /\ codec' = [codec EXCEPT
            !.redecoded = Some(EnumDeserialize(codec.enum, codec.encoded.v))]
    /\ pc' = "redecoded"
    /\ OutsideCodec

NextCodec ==
    \/ Deserialize
    \/ Serialize
    \/ DeserializeEncoded

SpecCodec == InitCodec /\ [][NextCodec]_vars

---------------------------------------------------------------------------
(* Properties of the enum codec *)

\* The wire string of a named variant: its name in lower snake case.
WireName(tag) ==
    CASE tag = "Low" -> "low"
      [] tag = "Medium" -> "medium"
      [] tag = "High" -> "high"
      [] tag = "Message" -> "message"
      [] tag = "FunctionCall" -> "function_call"
      [] tag = "OutputText" -> "output_text"
      [] tag = "InProgress" -> "in_progress"
      [] tag = "Completed" -> "completed"
      [] tag = "RequiresAction" -> "requires_action"
      [] tag = "Failed" -> "failed"
      [] tag = "User" -> "user"
      [] tag = "Assistant" -> "assistant"
      [] tag = "Tool" -> "tool"
      [] tag = "System" -> "system"
      [] tag = "Markdown" -> "markdown"
      [] tag = "PlainText" -> "plain_text"

KnownStrings(e) == {WireName(v.tag) : v \in NamedVariants(e)}

Decoded == pc \in {"decoded", "encoded", "redecoded"}

StringInput == codec.wire.t = "string"

KnownInput == StringInput /\ codec.wire.s \in KnownStrings(codec.enum)

UnknownInput == StringInput /\ codec.wire.s \notin KnownStrings(codec.enum)

\* C1: decoding a known wire string of an enum gives the named variant
\* that string stands for, and encoding that variant gives the string back.
KnownWireRoundTrips ==
    (Decoded /\ KnownInput) =>
        /\ codec.decoded.v.ok
        /\ codec.decoded.v.v \in NamedVariants(codec.enum)
        /\ WireName(codec.decoded.v.v.tag) = codec.wire.s
        /\ pc \in {"encoded", "redecoded"} => codec.encoded = Some(JStr(codec.wire.s))

RequiresActionRoundTripped ==
    /\ pc = "encoded"
    /\ codec.enum = "Status"
    /\ codec.wire = JStr("requires_action")
    /\ codec.decoded.v = Ok(Named("RequiresAction"))
    /\ codec.encoded = Some(JStr("requires_action"))

\* C2: decoding a string succeeds whatever the string; a string the enum
\* does not know (compared exactly, so "Low" is not known) gives the
\* catch-all variant holding it unchanged, which encodes to the same string.
UnknownWireRoundTrips ==
    /\ (Decoded /\ StringInput) => codec.decoded.v.ok
    /\ (Decoded /\ UnknownInput) =>
        /\ codec.decoded.v = Ok(Unknown(codec.wire.s))
        /\ pc \in {"encoded", "redecoded"} => codec.encoded = Some(JStr(codec.wire.s))

CapitalisedLowRoundTripped ==
    /\ pc = "encoded"
    /\ codec.enum = "ReasoningEffort"
    /\ codec.wire = JStr("Low")
    /\ codec.decoded.v = Ok(Unknown("Low"))
    /\ codec.encoded = Some(JStr("Low"))

\* C30: decoding never yields the catch-all variant holding a wire string
\* the enum knows, so every decoded value, encoded and decoded again, is
\* the same value; and each named variant of each enum, encoded and
\* decoded, is that variant.
DecodeInvertsEncode ==
    /\ (Decoded /\ codec.decoded.v.ok /\ codec.decoded.v.v.tag = "Unknown") =>
            codec.decoded.v.v.s \notin KnownStrings(codec.enum)
    /\ pc = "redecoded" => codec.redecoded.v = Ok(codec.decoded.v.v)
    /\ \A v \in NamedVariants(codec.enum) :
            EnumDeserialize(codec.enum, EnumSerialize(codec.enum, v)) = Ok(v)

ToolRoleDecodedAgain ==
    /\ pc = "redecoded"
    /\ codec.enum = "Role"
    /\ codec.wire = JStr("tool")
    /\ codec.encoded = Some(JStr("tool"))
    /\ codec.redecoded = Some(Ok(Named("Tool")))

---------------------------------------------------------------------------
(* Responses: responses.rs.  Of Gpt5Response, ResponseOutput,             *)
(* OutputContent and ResponseUsage the model carries the fields the        *)
(* accessors read.                                                         *)

\* Option<String> at key k of the JSON object o: None when the key is
\* missing or null, an error when the value is no string.
Option_String_deserialize(o, k) ==
    IF k \notin DOMAIN o \/ o[k].t = "null" THEN Ok(None)
    ELSE IF o[k].t = "string" THEN Ok(Some(o[k].s))
    ELSE Err("invalid type: expected a string")

\* OutputContent: content_type (the key type, required) and text.
OutputContent_deserialize(j) ==
    IF j.t # "object" THEN Err("invalid type: expected struct OutputContent")
    ELSE IF "type" \notin DOMAIN j.o THEN Err("missing field type")
    ELSE LET ty == ContentType_deserialize(j.o["type"])
             tx == Option_String_deserialize(j.o, "text")
         IN  IF ~ty.ok THEN ty
             ELSE IF ~tx.ok THEN tx
             ELSE Ok([content_type |-> ty.v, text |-> tx.v])

\* Option<Vec<OutputContent>> at key k.
Option_Vec_OutputContent_deserialize(o, k) ==
    IF k \notin DOMAIN o \/ o[k].t = "null" THEN Ok(None)
    ELSE IF o[k].t # "array" THEN Err("invalid type: expected a sequence")
    ELSE LET rs == [i \in 1..Len(o[k].a) |-> OutputContent_deserialize(o[k].a[i])]
         IN  IF \A i \in 1..Len(o[k].a) : rs[i].ok
             THEN Ok(Some([i \in 1..Len(o[k].a) |-> rs[i].v]))
             ELSE Err("invalid element of content")

\* ResponseOutput: output_type (the key type, required), name, arguments
\* and content.
ResponseOutput_deserialize(j) ==
    IF j.t # "object" THEN Err("invalid type: expected struct ResponseOutput")
    ELSE IF "type" \notin DOMAIN j.o THEN Err("missing field type")
    ELSE LET ty == OutputType_deserialize(j.o["type"])
             nm == Option_String_deserialize(j.o, "name")
             ar == Option_String_deserialize(j.o, "arguments")
             ct == Option_Vec_OutputContent_deserialize(j.o, "content")
         IN  IF ~ty.ok THEN ty
             ELSE IF ~nm.ok THEN nm
             ELSE IF ~ar.ok THEN ar
             ELSE IF ~ct.ok THEN ct
             ELSE Ok([output_type |-> ty.v, name |-> nm.v, arguments |-> ar.v,
                      content |-> ct.v])

\* Option<Vec<ResponseOutput>> at key k.
Option_Vec_ResponseOutput_deserialize(o, k) ==
    IF k \notin DOMAIN o \/ o[k].t = "null" THEN Ok(None)
    ELSE IF o[k].t # "array" THEN Err("invalid type: expected a sequence")
    ELSE LET rs == [i \in 1..Len(o[k].a) |-> ResponseOutput_deserialize(o[k].a[i])]
         IN  IF \A i \in 1..Len(o[k].a) : rs[i].ok
             THEN Ok(Some([i \in 1..Len(o[k].a) |-> rs[i].v]))
             ELSE Err("invalid element of output")

\* u32 at key k of the JSON object o, a required field.  The token counts
\* of the model stay far below 2^32, so only the sign can be out of range.
u32_deserialize(o, k) ==
    IF k \notin DOMAIN o THEN Err("missing field")
    ELSE IF o[k].t # "number" THEN Err("invalid type: expected u32")
    ELSE IF o[k].n < 0 THEN Err("invalid value: expected u32")
    ELSE Ok(o[k].n)

\* Option<u32> at key k.
Option_u32_deserialize(o, k) ==
    IF k \notin DOMAIN o \/ o[k].t = "null" THEN Ok(None)
    ELSE LET n == u32_deserialize(o, k)
         IN  IF n.ok THEN Ok(Some(n.v)) ELSE n

\* Option<Status> at key k.
Option_Status_deserialize(o, k) ==
    IF k \notin DOMAIN o \/ o[k].t = "null" THEN Ok(None)
    ELSE LET st == Status_deserialize(o[k])
         IN  IF st.ok THEN Ok(Some(st.v)) ELSE st

\* Option<Value> at key k: any JSON value but null is kept as it is.
Option_Value_deserialize(o, k) ==
    IF k \notin DOMAIN o \/ o[k].t = "null" THEN Ok(None) ELSE Ok(Some(o[k]))

\* Option<ResponseTokenDetails> at key k: reasoning_tokens.
Option_ResponseTokenDetails_deserialize(o, k) ==
    IF k \notin DOMAIN o \/ o[k].t = "null" THEN Ok(None)
    ELSE IF o[k].t # "object" THEN Err("invalid type: expected struct ResponseTokenDetails")
    ELSE LET rt == Option_u32_deserialize(o[k].o, "reasoning_tokens")
         IN  IF ~rt.ok THEN rt ELSE Ok(Some([reasoning_tokens |-> rt.v]))

\* Option<ResponseUsage> at key k: input_tokens, output_tokens and
\* total_tokens are required, output_tokens_details is optional.
Option_ResponseUsage_deserialize(o, k) ==
    IF k \notin DOMAIN o \/ o[k].t = "null" THEN Ok(None)
    ELSE IF o[k].t # "object" THEN Err("invalid type: expected struct ResponseUsage")
    ELSE LET it == u32_deserialize(o[k].o, "input_tokens")
             ot == u32_deserialize(o[k].o, "output_tokens")
             od == Option_ResponseTokenDetails_deserialize(o[k].o, "output_tokens_details")
             tt == u32_deserialize(o[k].o, "total_tokens")
         IN  IF ~it.ok THEN it
             ELSE IF ~ot.ok THEN ot
             ELSE IF ~od.ok THEN od
             ELSE IF ~tt.ok THEN tt
             ELSE Ok(Some([input_tokens |-> it.v, output_tokens |-> ot.v,
                           output_tokens_details |-> od.v, total_tokens |-> tt.v]))

\* Gpt5Response: status, error, output and usage.  Keys the struct does not
\* name are ignored.
Gpt5Response_deserialize(j) ==
    IF j.t # "object" THEN Err("invalid type: expected struct Gpt5Response")
    ELSE LET st == Option_Status_deserialize(j.o, "status")
             er == Option_Value_deserialize(j.o, "error")
             out == Option_Vec_ResponseOutput_deserialize(j.o, "output")
             us == Option_ResponseUsage_deserialize(j.o, "usage")
         IN  IF ~st.ok THEN st
             ELSE IF ~out.ok THEN out
             ELSE IF ~us.ok THEN us
             ELSE Ok([status |-> st.v, error |-> er.v, output |-> out.v, usage |-> us.v])

RECURSIVE text_in_content(_, _)
\* The inner loop of text(): the segments of one message from the j-th on.
text_in_content(content_array, j) ==
    IF j > Len(content_array) THEN None
    ELSE IF content_array[j].content_type = Named("OutputText")
            /\ content_array[j].text.some
         THEN Some(content_array[j].text.v)
         ELSE text_in_content(content_array, j + 1)

RECURSIVE text_in_outputs(_, _)
\* The outer loop of text(): the output items from the i-th on.
text_in_outputs(outputs, i) ==
    IF i > Len(outputs) THEN None
    ELSE LET found == IF outputs[i].output_type = Named("Message")
                         /\ outputs[i].content.some
                      THEN text_in_content(outputs[i].content.v, 1)
                      ELSE None
         IN  IF found.some THEN found ELSE text_in_outputs(outputs, i + 1)

RECURSIVE text_in_any_outputs(_, _)
\* The outer loop without the test of the item's kind.
text_in_any_outputs(outputs, i) ==
    IF i > Len(outputs) THEN None
    ELSE LET found == IF outputs[i].content.some
                      THEN text_in_content(outputs[i].content.v, 1)
                      ELSE None
         IN  IF found.some THEN found ELSE text_in_any_outputs(outputs, i + 1)

RECURSIVE first_output_text_in_content(_, _)
\* The first segment of kind output_text from the j-th on, with or without
\* a text.
first_output_text_in_content(content_array, j) ==
    IF j > Len(content_array) THEN None
    ELSE IF content_array[j].content_type = Named("OutputText")
         THEN Some(content_array[j])
         ELSE first_output_text_in_content(content_array, j + 1)

RECURSIVE first_output_text_in_outputs(_, _)
\* The first segment of kind output_text of a message from the i-th item on.
first_output_text_in_outputs(outputs, i) ==
    IF i > Len(outputs) THEN None
    ELSE LET found == IF outputs[i].output_type = Named("Message")
                         /\ outputs[i].content.some
                      THEN first_output_text_in_content(outputs[i].content.v, 1)
                      ELSE None
         IN  IF found.some THEN found ELSE first_output_text_in_outputs(outputs, i + 1)

\* text() that stops at the first matching segment, text or no text.
text_of_first_segment(self) ==
    IF self.output.some /\ first_output_text_in_outputs(self.output.v, 1).some
    THEN first_output_text_in_outputs(self.output.v, 1).v.text
    ELSE None

\* text() that looks into the content of every item, message or not.
text_ignoring_item_kind(self) ==
    IF self.output.some THEN text_in_any_outputs(self.output.v, 1) ELSE None

\* Gpt5Response::text
text(self) ==
    IF self.output.some THEN text_in_outputs(self.output.v, 1) ELSE None

RECURSIVE all_text_in_content(_, _)
\* The inner loop of all_text(): the texts pushed for the segments of one
\* message from the j-th on.
all_text_in_content(content_array, j) ==
    IF j > Len(content_array) THEN <<>>
    ELSE (IF content_array[j].content_type = Named("OutputText")
             /\ content_array[j].text.some
          THEN <<content_array[j].text.v>>
          ELSE <<>>)
         \o all_text_in_content(content_array, j + 1)

RECURSIVE all_text_in_outputs(_, _)
\* The outer loop of all_text(): the texts pushed for the items from the
\* i-th on.
all_text_in_outputs(outputs, i) ==
    IF i > Len(outputs) THEN <<>>
    ELSE (IF outputs[i].output_type = Named("Message") /\ outputs[i].content.some
          THEN all_text_in_content(outputs[i].content.v, 1)
          ELSE <<>>)
         \o all_text_in_outputs(outputs, i + 1)

RECURSIVE all_text_in_any_outputs(_, _)
\* The outer loop without the test of the item's kind.
all_text_in_any_outputs(outputs, i) ==
    IF i > Len(outputs) THEN <<>>
    ELSE (IF outputs[i].content.some
          THEN all_text_in_content(outputs[i].content.v, 1)
          ELSE <<>>)
         \o all_text_in_any_outputs(outputs, i + 1)

\* all_text() that collects from the content of every item, message or not.
all_text_ignoring_item_kind(self) ==
    IF self.output.some THEN all_text_in_any_outputs(self.output.v, 1) ELSE <<>>

\* Gpt5Response::all_text
all_text(self) ==
    IF self.output.some THEN all_text_in_outputs(self.output.v, 1) ELSE <<>>

\* function_calls() that keeps every item that is no message.
function_calls_keeping_unknown(self) ==
    IF self.output.some
    THEN SelectSeq(self.output.v, LAMBDA output : output.output_type # Named("Message"))
    ELSE <<>>

\* Gpt5Response::function_calls
function_calls(self) ==
    IF self.output.some
    THEN SelectSeq(self.output.v, LAMBDA output : output.output_type = Named("FunctionCall"))
    ELSE <<>>

\* Gpt5Response::reasoning_tokens
reasoning_tokens(self) ==
    IF self.usage.some /\ self.usage.v.output_tokens_details.some
    THEN self.usage.v.output_tokens_details.v.reasoning_tokens
    ELSE None

\* total_tokens() that adds the input and the output tokens up.
total_tokens_summing(self) ==
    IF self.usage.some
    THEN self.usage.v.input_tokens + self.usage.v.output_tokens
    ELSE 0

\* Gpt5Response::total_tokens
total_tokens(self) ==
    IF self.usage.some THEN self.usage.v.total_tokens ELSE 0

\* is_completed() that takes every status but Failed for completion.
is_completed_unless_failed(self) ==
    IF self.status.some THEN self.status.v # Named("Failed") ELSE FALSE

\* Gpt5Response::is_completed
is_completed(self) ==
    IF self.status.some THEN self.status.v = Named("Completed") ELSE FALSE

\* has_error() that also infers an error from the status Failed.
has_error_inferred_from_status(self) ==
    self.error.some \/ (self.status.some /\ self.status.v = Named("Failed"))

\* Gpt5Response::has_error
has_error(self) == self.error.some

---------------------------------------------------------------------------
(* Inputs of the response scenario *)

\* Output items of a response body.
MaxItems == 2

\* Content segments of a response body, over all its items.
MaxSegments == 2

\* A content segment as JSON; text is left out when tx is None.
SegmentJson(ty, tx) ==
    JObj([k \in {"type"} \cup (IF tx.some THEN {"text"} ELSE {}) |->
            IF k = "type" THEN JStr(ty) ELSE JStr(tx.v)])

\* An output item as JSON; content is left out when ct is None.
ItemJson(ty, ct) ==
    JObj([k \in {"type"} \cup (IF ct.some THEN {"content"} ELSE {}) |->
            IF k = "type" THEN JStr(ty) ELSE JArr(ct.v)])

SegmentJsons ==
    {SegmentJson("output_text", None), SegmentJson("output_text", Some("A")),
     SegmentJson("output_text", Some("B")), SegmentJson("refusal", Some("R"))}

ItemTypes == {"message", "function_call", "reasoning"}

\* An output item as JSON with a name and arguments, and no content.
CallItemJson(ty, nm, ar) ==
    JObj([k \in {"type", "name", "arguments"} |->
            IF k = "type" THEN JStr(ty) ELSE IF k = "name" THEN JStr(nm) ELSE JStr(ar)])

CallItemJsons ==
    {CallItemJson("function_call", "get_weather", "{\"location\": \"Boston\"}"),
     CallItemJson("function_call", "search", "{}")}

\* The output items the server's reply may hold when they arrive.
ItemJsons ==
    {ItemJson(ty, ct) : ty \in ItemTypes, ct \in {None, Some(<<>>)}} \cup CallItemJsons

\* A response body with the output array out.
BodyJson(out) == JObj([k \in {"output"} |-> JArr(out)])

\* Response bodies to start from: no output key, a null output, an output
\* of the wrong type, an empty output array.
FirstBodyJsons ==
    {JObj([k \in {} |-> JNull]),
     JObj([k \in {"output"} |-> JNull]),
     JObj([k \in {"output"} |-> JStr("oops")]),
     BodyJson(<<>>)}

HasOutputArray(body) == "output" \in DOMAIN body.o /\ body.o["output"].t = "array"

RECURSIVE SegmentCount(_, _)
\* The content segments of the items from the i-th on.
SegmentCount(items, i) ==
    IF i > Len(items) THEN 0
    ELSE (IF "content" \in DOMAIN items[i].o THEN Len(items[i].o["content"].a) ELSE 0)
         + SegmentCount(items, i + 1)

---------------------------------------------------------------------------
(* The response scenario: a body arrives, is decoded, and the accessors    *)
(* are called                                                              *)

InitResponse ==
    /\ pc = "body"
    /\ payload \in FirstBodyJsons
    /\ resp = Idle
    /\ result = Idle
    /\ codec = Idle
    /\ builder = Idle
    /\ hist = Idle
    /\ req = Idle
    /\ diag = {}
    /\ client = Idle
    /\ calls = Idle
    /\ wire = Idle

OutsideResponse == UNCHANGED <<codec, builder, hist, req, diag, client, calls, wire>>

\* The server's reply holds one more output item.
ReceiveItem ==
    /\ pc = "body"
    /\ HasOutputArray(payload)
    /\ Len(payload.o["output"].a) < MaxItems
    /\ \E item \in ItemJsons :
        payload' = BodyJson(Append(payload.o["output"].a, item))
    /\ UNCHANGED <<pc, resp, result>>
    /\ OutsideResponse

\* The server's reply holds one more content segment in its last item.
ReceiveSegment ==
    /\ pc = "body"
    /\ HasOutputArray(payload)
    /\ LET items == payload.o["output"].a IN
        /\ items # <<>>
        /\ "content" \in DOMAIN items[Len(items)].o
        /\ SegmentCount(items, 1) < MaxSegments
        /\ \E seg \in SegmentJsons :
            payload' =
                BodyJson([items EXCEPT ![Len(items)].o["content"].a = Append(@, seg)])
    /\ UNCHANGED <<pc, resp, result>>
    /\ OutsideResponse

\* serde_json::from_value::<Gpt5Response>(body)
ParseBody ==
    /\ pc = "body"
    /\ resp' = Gpt5Response_deserialize(payload)
    /\ pc' = IF resp'.ok THEN "decoded" ELSE "failed"
    /\ UNCHANGED <<payload, result>>
    /\ OutsideResponse

\* response.text()
CallText ==
    /\ pc = "decoded"
    /\ result' = [op |-> "text", v |-> text(resp.v)]
    /\ UNCHANGED <<pc, payload, resp>>
    /\ OutsideResponse

\* response.all_text()
CallAllText ==
    /\ pc = "decoded"
    /\ result' = [op |-> "all_text", v |-> all_text(resp.v)]
    /\ UNCHANGED <<pc, payload, resp>>
    /\ OutsideResponse

\* response.function_calls()
CallFunctionCalls ==
    /\ pc = "decoded"
    /\ result' = [op |-> "function_calls", v |-> function_calls(resp.v)]
    /\ UNCHANGED <<pc, payload, resp>>
    /\ OutsideResponse

NextResponse ==
    \/ ReceiveItem
    \/ ReceiveSegment
    \/ ParseBody
    \/ CallText
    \/ CallAllText
    \/ CallFunctionCalls

SpecResponse == InitResponse /\ [][NextResponse]_vars

---------------------------------------------------------------------------
(* The fields scenario: a body with a status, an error and a usage is      *)
(* decoded, and the accessors of these fields are called                   *)

\* A JSON object with the keys of ks that have a value in the record of
\* options vals.
OptionalKeysJson(ks, vals) ==
    JObj([k \in {x \in ks : vals[x].some} |-> vals[k].v])

\* A response body with the given status, error and usage; each is left
\* out when it is None.
FieldsJson(st, er, us) ==
    OptionalKeysJson({"status", "error", "usage"},
                     [status |-> st, error |-> er, usage |-> us])

\* output_tokens_details as JSON; reasoning_tokens is left out when rt is None.
DetailsJson(rt) == OptionalKeysJson({"reasoning_tokens"}, [reasoning_tokens |-> rt])

\* A usage object as JSON; output_tokens_details is left out when od is None.
UsageJson(it, ot, tt, od) ==
    OptionalKeysJson({"input_tokens", "output_tokens", "total_tokens", "output_tokens_details"},
                     [input_tokens |-> Some(JNum(it)), output_tokens |-> Some(JNum(ot)),
                      total_tokens |-> Some(JNum(tt)), output_tokens_details |-> od])

StatusJsons ==
    {JStr(s) : s \in {"completed", "failed", "in_progress", "requires_action",
                      "queued", "incomplete"}}
    \cup {JNull, JNum(1)}

ErrorJsons ==
    {JNull, JStr("boom"),
     JObj([k \in {"message", "type"} |->
            IF k = "message" THEN JStr("Invalid API key") ELSE JStr("invalid_request_error")])}

DetailsJsons ==
    {JNull, DetailsJson(None), DetailsJson(Some(JNull)),
     DetailsJson(Some(JNum(0))), DetailsJson(Some(JNum(3)))}

\* input, output and total token counts; the total of the second one is
\* not the sum of the other two.
TokenCounts == {<<10, 5, 15>>, <<10, 5, 20>>}

UsageJsons ==
    {UsageJson(c[1], c[2], c[3], od) :
        c \in TokenCounts, od \in {None} \cup {Some(x) : x \in DetailsJsons}}
    \cup {JNull,
          JObj([k \in {"total_tokens"} |-> JNum(15)]),
          UsageJson(10, 5, -1, None)}

Optional(S) == {None} \cup {Some(x) : x \in S}

FieldBodyJsons ==
    {FieldsJson(st, er, us) :
        st \in Optional(StatusJsons), er \in Optional(ErrorJsons), us \in Optional(UsageJsons)}

InitFields ==
    /\ pc = "body"
    /\ payload \in FieldBodyJsons
    /\ resp = Idle
    /\ result = Idle
    /\ codec = Idle
    /\ builder = Idle
    /\ hist = Idle
    /\ req = Idle
    /\ diag = {}
    /\ client = Idle
    /\ calls = Idle
    /\ wire = Idle

\* response.is_completed()
CallIsCompleted ==
    /\ pc = "decoded"
    /\ result' = [op |-> "is_completed", v |-> is_completed(resp.v)]
    /\ UNCHANGED <<pc, payload, resp>>
    /\ OutsideResponse

\* response.has_error()
CallHasError ==
    /\ pc = "decoded"
    /\ result' = [op |-> "has_error", v |-> has_error(resp.v)]
    /\ UNCHANGED <<pc, payload, resp>>
    /\ OutsideResponse

\* response.total_tokens()
CallTotalTokens ==
    /\ pc = "decoded"
    /\ result' = [op |-> "total_tokens", v |-> total_tokens(resp.v)]
    /\ UNCHANGED <<pc, payload, resp>>
    /\ OutsideResponse

\* response.reasoning_tokens()
CallReasoningTokens ==
    /\ pc = "decoded"
    /\ result' = [op |-> "reasoning_tokens", v |-> reasoning_tokens(resp.v)]
    /\ UNCHANGED <<pc, payload, resp>>
    /\ OutsideResponse

NextFields ==
    \/ ParseBody
    \/ CallIsCompleted
    \/ CallHasError
    \/ CallTotalTokens
    \/ CallReasoningTokens

SpecFields == InitFields /\ [][NextFields]_vars

---------------------------------------------------------------------------
(* Properties of the response accessors *)

\* The accessor op has returned.
Returned(op) == pc = "decoded" /\ result # Idle /\ result.op = op

Outputs == IF resp.v.output.some THEN resp.v.output.v ELSE <<>>

ContentOf(i) == IF Outputs[i].content.some THEN Outputs[i].content.v ELSE <<>>

\* The places <<item, segment>> of the segments of kind output_text in
\* items of kind message.
Matching ==
    UNION {{<<i, j>> : j \in {n \in 1..Len(ContentOf(i)) :
                                ContentOf(i)[n].content_type = Named("OutputText")}} :
                i \in {m \in 1..Len(Outputs) : Outputs[m].output_type = Named("Message")}}

MatchingWithText == {p \in Matching : ContentOf(p[1])[p[2]].text.some}

\* Item order, then segment order.
Before(p, q) == p[1] < q[1] \/ (p[1] = q[1] /\ p[2] < q[2])

First(S) == CHOOSE p \in S : \A q \in S : p = q \/ Before(p, q)

\* C10 as stated: text() returns the text of the first segment of kind
\* output_text in an item of kind message, and absent when there is none or
\* output is missing.
TextIsTextOfFirstMatchingSegment ==
    Returned("text") =>
        result.v = IF Matching = {} THEN None
                   ELSE ContentOf(First(Matching)[1])[First(Matching)[2]].text

\* C10 amended: text() returns the text of the first segment of kind
\* output_text, in an item of kind message, that has a text (so of two
\* message items with one output_text segment each, the first one's text),
\* and absent when there is none or output is missing.
TextIsFirstMatchingText ==
    Returned("text") =>
        result.v = IF MatchingWithText = {} THEN None
                   ELSE ContentOf(First(MatchingWithText)[1])[First(MatchingWithText)[2]].text

TwoMessagesFirstTextReturned ==
    /\ Returned("text")
    /\ payload =
        BodyJson(<<ItemJson("message", Some(<<SegmentJson("output_text", Some("A"))>>)),
                   ItemJson("message", Some(<<SegmentJson("output_text", Some("B"))>>))>>)
    /\ result.v = Some("A")

\* The k-th place of S in item order, then segment order.
NthPlace(S, k) == CHOOSE p \in S : Cardinality({q \in S : Before(q, p)}) = k - 1

\* C11: all_text() returns the texts of the output_text segments of the
\* message items, in item order and then segment order, one text for each
\* such segment that carries one; it is the empty sequence when there is
\* none or output is missing, and no segment of another item contributes.
AllTextIsMatchingTextsInOrder ==
    Returned("all_text") =>
        /\ Len(result.v) = Cardinality(MatchingWithText)
        /\ \A k \in 1..Len(result.v) :
            LET p == NthPlace(MatchingWithText, k)
            IN  result.v[k] = ContentOf(p[1])[p[2]].text.v
        /\ (~resp.v.output.some => result.v = <<>>)

AllTextSkipsFunctionCallSegment ==
    /\ Returned("all_text")
    /\ payload =
        BodyJson(<<ItemJson("function_call", Some(<<SegmentJson("output_text", Some("B"))>>)),
                   ItemJson("message", Some(<<SegmentJson("output_text", Some("A"))>>))>>)
    /\ result.v = <<"A">>

\* The positions of the output items of kind function_call.
CallPositions == {i \in 1..Len(Outputs) : Outputs[i].output_type = Named("FunctionCall")}

\* The k-th position of S.
NthPosition(S, k) == CHOOSE i \in S : Cardinality({j \in S : j < i}) = k - 1

\* The string at key k of the i-th output item of the body, if any.
BodyItemString(i, k) ==
    LET o == payload.o["output"].a[i].o
    IN  IF k \in DOMAIN o THEN Some(o[k].s) ELSE None

\* C27: text() and all_text() pass over the matching segments that have
\* no text: all_text() holds one entry for each matching segment with a
\* text, text() is the text of the first of these (it may sit in a later
\* segment or item than the first matching segment) and is absent only
\* when no matching segment has a text; text() is the first element of
\* all_text() whenever all_text() is non-empty.
TextIsHeadOfAllText ==
    /\ Returned("text") =>
        /\ result.v = None <=> MatchingWithText = {}
        /\ result.v = None <=> all_text(resp.v) = <<>>
        /\ result.v.some =>
            LET p == First(MatchingWithText)
            IN  /\ result.v = ContentOf(p[1])[p[2]].text
                /\ result.v.v = Head(all_text(resp.v))
    /\ Returned("all_text") =>
        /\ Len(result.v) = Cardinality(MatchingWithText)
        /\ result.v # <<>> => text(resp.v) = Some(Head(result.v))
        /\ result.v = <<>> => text(resp.v) = None

TextFoundAfterTextlessSegment ==
    /\ Returned("text")
    /\ result.v.some
    /\ Before(First(Matching), First(MatchingWithText))
    /\ First(Matching)[1] < First(MatchingWithText)[1]
    /\ all_text(resp.v) = <<result.v.v>>

\* C12: function_calls() returns exactly the output items of kind
\* function_call, in their original order, each with the name and the
\* arguments the body gave it; messages and items of an unknown kind are
\* left out, and the result is empty when output is missing.
FunctionCallsAreTheCallItemsInOrder ==
    Returned("function_calls") =>
        /\ Len(result.v) = Cardinality(CallPositions)
        /\ \A k \in 1..Len(result.v) :
            LET i == NthPosition(CallPositions, k)
            IN  /\ result.v[k] = Outputs[i]
                /\ result.v[k].name = BodyItemString(i, "name")
                /\ result.v[k].arguments = BodyItemString(i, "arguments")
        /\ (~resp.v.output.some => result.v = <<>>)

WeatherCallReturnedWithoutMessage ==
    /\ Returned("function_calls")
    /\ payload =
        BodyJson(<<CallItemJson("function_call", "get_weather", "{\"location\": \"Boston\"}"),
                   ItemJson("message", Some(<<SegmentJson("output_text", Some("A"))>>))>>)
    /\ Len(result.v) = 1
    /\ result.v[1].name = Some("get_weather")
    /\ result.v[1].arguments = Some("{\"location\": \"Boston\"}")

---------------------------------------------------------------------------
(* Properties of the accessors of status, error and usage *)

\* The body gives the field k a value that is not null.
BodyHas(k) == k \in DOMAIN payload.o /\ payload.o[k] # JNull

\* The body's status is missing, null or a string.
StatusIsStringOrAbsent == ~BodyHas("status") \/ payload.o["status"].t = "string"

\* C13: is_completed() is true iff the body's status is the string
\* completed; a body whose status is missing, another known status or an
\* unknown string such as incomplete or queued decodes (the unknown string
\* into the catch-all variant) and gives false.
IsCompletedIffStatusCompleted ==
    /\ Returned("is_completed") =>
        result.v = (BodyHas("status") /\ payload.o["status"] = JStr("completed"))
    /\ (pc # "body" /\ StatusIsStringOrAbsent /\ ~BodyHas("usage")) =>
        /\ pc = "decoded"
        /\ resp.ok
        /\ (BodyHas("status") /\ payload.o["status"].s \in {"queued", "incomplete"}) =>
                resp.v.status = Some(Unknown(payload.o["status"].s))
        /\ ENABLED CallIsCompleted

QueuedStatusNotCompleted ==
    /\ Returned("is_completed")
    /\ BodyHas("status")
    /\ payload.o["status"] = JStr("queued")
    /\ resp.v.status = Some(Unknown("queued"))
    /\ result.v = FALSE

\* The body's usage holds output_tokens_details with a reasoning_tokens
\* count.
BodyHasReasoningTokens ==
    /\ BodyHas("usage")
    /\ "output_tokens_details" \in DOMAIN payload.o["usage"].o
    /\ payload.o["usage"].o["output_tokens_details"] # JNull
    /\ "reasoning_tokens" \in DOMAIN payload.o["usage"].o["output_tokens_details"].o
    /\ payload.o["usage"].o["output_tokens_details"].o["reasoning_tokens"] # JNull

\* C14: total_tokens() is usage.total_tokens when the body has a usage and
\* 0 when it has none; reasoning_tokens() is the reasoning_tokens count
\* when usage, its output_tokens_details and reasoning_tokens are all
\* there, and absent otherwise; both can always be called on a decoded
\* response.
TokenCountsFollowUsage ==
    /\ Returned("total_tokens") =>
        result.v = IF BodyHas("usage") THEN payload.o["usage"].o["total_tokens"].n ELSE 0
    /\ Returned("reasoning_tokens") =>
        result.v = IF BodyHasReasoningTokens
                   THEN Some(payload.o["usage"].o["output_tokens_details"].o["reasoning_tokens"].n)
                   ELSE None
    /\ pc = "decoded" => ENABLED CallTotalTokens /\ ENABLED CallReasoningTokens

TotalTokensTakenFromUsage ==
    /\ Returned("total_tokens")
    /\ BodyHas("usage")
    /\ payload.o["usage"] = UsageJson(10, 5, 20, Some(DetailsJson(Some(JNum(3)))))
    /\ result.v = 20
    /\ reasoning_tokens(resp.v) = Some(3)

\* C15: has_error() is true iff the body gives error a value that is not
\* null, whatever the status is; with the status failed and no error both
\* has_error() and is_completed() are false.
HasErrorIffErrorNonNull ==
    /\ Returned("has_error") => result.v = BodyHas("error")
    /\ (Returned("is_completed") /\ BodyHas("status") /\ payload.o["status"] = JStr("failed")) =>
        result.v = FALSE

FailedStatusWithoutError ==
    /\ Returned("has_error")
    /\ payload = FieldsJson(Some(JStr("failed")), None, None)
    /\ resp.v.status = Some(Named("Failed"))
    /\ result.v = FALSE

---------------------------------------------------------------------------
(* The client: client.rs, and the copy of request() in lib.rs *)

\* The characters of the model names the scenario uses.
chars(s) ==
    CASE s = "gpt-5" -> <<"g", "p", "t", "-", "5">>
      [] s = "gpt-5-mini" -> <<"g", "p", "t", "-", "5", "-", "m", "i", "n", "i">>
      [] s = "gpt-5-nano" -> <<"g", "p", "t", "-", "5", "-", "n", "a", "n", "o">>
      [] s = "gpt-5-preview" ->
            <<"g", "p", "t", "-", "5", "-", "p", "r", "e", "v", "i", "e", "w">>
      [] s = "gpt-50" -> <<"g", "p", "t", "-", "5", "0">>
      [] s = "gpt-4o" -> <<"g", "p", "t", "-", "4", "o">>
      [] s = "gpt-" -> <<"g", "p", "t", "-">>
      [] s = "my-model" -> <<"m", "y", "-", "m", "o", "d", "e", "l">>
      [] s = "" -> <<>>

\* str::starts_with
starts_with(s, prefix) ==
    /\ Len(chars(prefix)) <= Len(chars(s))
    /\ SubSeq(chars(s), 1, Len(chars(prefix))) = chars(prefix)

\* is_gpt5_model() that accepts the three exact names only.
is_gpt5_model_exact_names(model) == model \in {"gpt-5", "gpt-5-mini", "gpt-5-nano"}

\* is_gpt5_model() that accepts every name of the gpt family.
is_gpt5_model_any_gpt(model) ==
    model \in {"gpt-5", "gpt-5-mini", "gpt-5-nano"} \/ starts_with(model, "gpt-")

\* Gpt5Client::is_gpt5_model
is_gpt5_model(model) ==
    model \in {"gpt-5", "gpt-5-mini", "gpt-5-nano"} \/ starts_with(model, "gpt-5")

\* anyhow::anyhow!(msg, args...): the format string and its arguments.
anyhow(msg, args) == [msg |-> msg, args |-> args]

\* An error of the transport, turned into anyhow::Error by the ? operator.
reqwest_Error(kind) == [msg |-> "reqwest::Error", args |-> <<kind>>]

\* tracing::info! and tracing::error!
tracing_info(msg, args) == [level |-> "info", msg |-> msg, args |-> args]

tracing_error(msg, args) == [level |-> "error", msg |-> msg, args |-> args]

\* A response text: the serialization of the JSON value j, or text that is
\* no JSON.
JsonText(j) == [text |-> "json", of |-> j]

RawText(s) == [text |-> s]

\* serde_json::from_str::<serde_json::Value>
serde_json_from_str(response_text) ==
    IF response_text.text = "json" THEN Ok(response_text.of)
    ELSE Err("expected value at line 1 column 1")

\* String at key k of the JSON object o, a required field.
String_field_deserialize(o, k) ==
    IF k \notin DOMAIN o THEN Err("missing field") ELSE String_deserialize(o[k])

\* OpenAiErrorDetails: message and error_type (the key type) are required,
\* param and code are optional strings.
OpenAiErrorDetails_deserialize(j) ==
    IF j.t # "object" THEN Err("invalid type: expected struct OpenAiErrorDetails")
    ELSE LET ms == String_field_deserialize(j.o, "message")
             ty == String_field_deserialize(j.o, "type")
             pa == Option_String_deserialize(j.o, "param")
             co == Option_String_deserialize(j.o, "code")
         IN  IF ~ms.ok THEN ms
             ELSE IF ~ty.ok THEN ty
             ELSE IF ~pa.ok THEN pa
             ELSE IF ~co.ok THEN co
             ELSE Ok([message |-> ms.v, error_type |-> ty.v, param |-> pa.v, code |-> co.v])

\* OpenAiError: error is required.
OpenAiError_deserialize(j) ==
    IF j.t # "object" THEN Err("invalid type: expected struct OpenAiError")
    ELSE IF "error" \notin DOMAIN j.o THEN Err("missing field error")
    ELSE LET er == OpenAiErrorDetails_deserialize(j.o["error"])
         IN  IF ~er.ok THEN er ELSE Ok([error |-> er.v])

\* StatusCode::is_success
is_success(status) == 200 <= status /\ status <= 299

\* Gpt5Client::new
Gpt5Client_new(api_key) == [api_key |-> api_key, base_url |-> "https://api.openai.com"]

\* Gpt5Client::with_base_url
with_base_url(self, base_url) == [self EXCEPT !.base_url = base_url]

\* The POST that request() sends: url, headers and JSON body.
post(self, r) ==
    [url |-> <<self.base_url, "/v1/responses">>,
     Authorization |-> <<"Bearer ", self.api_key>>,
     Content_Type |-> "application/json",
     json |-> Gpt5Request_serialize(r)]

\* What request() returns and logs when the body is no JSON: the map_err
\* closure on serde_json::from_str.
invalid_json(json_error, response_text) ==
    [outcome |-> Err(anyhow("Invalid JSON response: {}", <<json_error>>)),
     log |-> <<tracing_error("Invalid JSON response from GPT-5: {}", <<json_error>>),
               tracing_error("Raw response: {}", <<response_text>>)>>]

\* The closure that returns a parse error without the reason.
parse_failure_without_reason(parse_error, response_text) ==
    [outcome |-> Err(anyhow("Failed to parse GPT-5 response", <<>>)),
     log |-> <<tracing_error("Failed to parse GPT-5 response: {}", <<parse_error>>),
               tracing_error("Raw response: {}", <<response_text>>)>>]

\* What request() returns and logs when the JSON body does not decode into
\* Gpt5Response: the map_err closure on serde_json::from_value.
parse_failure(parse_error, response_text) ==
    [outcome |-> Err(anyhow("Failed to parse GPT-5 response: {}", <<parse_error>>)),
     log |-> <<tracing_error("Failed to parse GPT-5 response: {}", <<parse_error>>),
               tracing_error("Raw response: {}", <<response_text>>)>>]

\* request() that looks at the status before it parses the body as JSON.
request_after_body_status_first(status, response_text) ==
    LET raw == <<tracing_info("GPT-5 raw response: {}", <<response_text>>)>>
        json_value == serde_json_from_str(response_text)
    IN  IF ~is_success(status)
        THEN IF json_value.ok /\ OpenAiError_deserialize(json_value.v).ok
             THEN [outcome |->
                        Err(anyhow("OpenAI API error (status {}): {}",
                                   <<status,
                                     OpenAiError_deserialize(json_value.v).v.error.message>>)),
                   log |-> raw]
             ELSE [outcome |->
                        Err(anyhow("OpenAI API request failed with status {}: {}",
                                   <<status, response_text>>)),
                   log |-> raw]
        ELSE IF ~json_value.ok
             THEN LET f == invalid_json(json_value.err, response_text)
                  IN  [outcome |-> f.outcome, log |-> raw \o f.log]
             ELSE LET gpt_response == Gpt5Response_deserialize(json_value.v)
                  IN  IF gpt_response.ok
                      THEN [outcome |-> Ok(gpt_response.v), log |-> raw]
                      ELSE LET f == parse_failure(gpt_response.err, response_text)
                           IN  [outcome |-> f.outcome, log |-> raw \o f.log]

\* The rest of Gpt5Client::request (client.rs) once the status and the
\* response text are there: the outcome and the log lines written.
request_after_body(status, response_text) ==
    LET raw == <<tracing_info("GPT-5 raw response: {}", <<response_text>>)>>
        json_value == serde_json_from_str(response_text)
    IN  IF ~json_value.ok
        THEN LET f == invalid_json(json_value.err, response_text)
             IN  [outcome |-> f.outcome, log |-> raw \o f.log]
        ELSE LET structure ==
                    <<tracing_info("GPT-5 response JSON structure: {:#}", <<json_value.v>>)>>
                 error_response == OpenAiError_deserialize(json_value.v)
                 gpt_response == Gpt5Response_deserialize(json_value.v)
             IN  IF ~is_success(status)
                 THEN IF error_response.ok
                      THEN [outcome |->
                                Err(anyhow("OpenAI API error (status {}): {}",
                                           <<status, error_response.v.error.message>>)),
                            log |-> raw \o structure \o
                                <<tracing_error("OpenAI API error (status {}): {}",
                                                <<status, error_response.v.error.message>>)>>]
                      ELSE [outcome |->
                                Err(anyhow("OpenAI API request failed with status {}: {}",
                                           <<status, response_text>>)),
                            log |-> raw \o structure \o
                                <<tracing_error("OpenAI API request failed with status {}",
                                                <<status>>)>>]
                 ELSE IF gpt_response.ok
                      THEN [outcome |-> Ok(gpt_response.v), log |-> raw \o structure]
                      ELSE LET f == parse_failure(gpt_response.err, response_text)
                           IN  [outcome |-> f.outcome, log |-> raw \o structure \o f.log]

\* The rest of Gpt5Client::request of lib.rs once the response text is
\* there; the status of the reply is never read.
lib_request_after_body(response_text) ==
    LET raw == <<tracing_info("GPT-5 raw response: {}", <<response_text>>)>>
        json_value == serde_json_from_str(response_text)
    IN  IF ~json_value.ok
        THEN LET f == invalid_json(json_value.err, response_text)
             IN  [outcome |-> f.outcome, log |-> raw \o f.log]
        ELSE LET structure ==
                    <<tracing_info("GPT-5 response JSON structure: {:#}", <<json_value.v>>)>>
                 error_response == OpenAiError_deserialize(json_value.v)
                 gpt_response == Gpt5Response_deserialize(json_value.v)
             IN  IF error_response.ok
                 THEN [outcome |->
                            Err(anyhow("OpenAI API error: {}",
                                       <<error_response.v.error.message>>)),
                       log |-> raw \o structure \o
                            <<tracing_error("OpenAI API error: {}",
                                            <<error_response.v.error.message>>)>>]
                 ELSE IF gpt_response.ok
                      THEN [outcome |-> Ok(gpt_response.v), log |-> raw \o structure]
                      ELSE LET f == parse_failure(gpt_response.err, response_text)
                           IN  [outcome |-> f.outcome, log |-> raw \o structure \o f.log]

\* extract_text() that gives the empty string when there is no text.
extract_text_or_empty(response) ==
    LET found == IF response.output.some
                 THEN text_in_outputs(response.output.v, 1)
                 ELSE None
    IN  IF found.some THEN Ok(found.v) ELSE Ok("")

\* Gpt5Client::extract_text: the loops of Gpt5Response::text, with an error
\* in place of None.
extract_text(response) ==
    LET found == IF response.output.some
                 THEN text_in_outputs(response.output.v, 1)
                 ELSE None
    IN  IF found.some THEN Ok(found.v)
        ELSE Err(anyhow("No text content in response output", <<>>))

---------------------------------------------------------------------------
(* The client scenario: concurrent calls of request() on one client, each  *)
(* with its own request and its own replies of the transport               *)

\* Calls of request() in flight at once.
MaxRequests == 2

RequestIds == 1..MaxRequests

ClientModels == {Gpt5, Custom("gpt-5-preview"), Custom("gpt-50"), Custom("gpt-4o")}

Clients ==
    {Gpt5Client_new("sk-test"),
     with_base_url(Gpt5Client_new("sk-test"), "https://custom-api.example.com")}

\* The vendor's error envelope, and one whose code is a number.
EnvelopeJson ==
    JObj([k \in {"error"} |->
        JObj([f \in {"message", "type", "param", "code"} |->
            CASE f = "message" -> JStr("Invalid API key")
              [] f = "type" -> JStr("invalid_request_error")
              [] f = "param" -> JStr("api_key")
              [] f = "code" -> JStr("invalid_api_key")])])

NumericCodeEnvelopeJson ==
    JObj([k \in {"error"} |->
        JObj([f \in {"message", "type", "code"} |->
            CASE f = "message" -> JStr("Rate limit reached")
              [] f = "type" -> JStr("rate_limit_error")
              [] f = "code" -> JNum(429)])])

\* A response with one message, and a body whose output is no array.
HelloJson ==
    BodyJson(<<ItemJson("message", Some(<<SegmentJson("output_text", Some("A"))>>))>>)

MisshapenJson == JObj([k \in {"output"} |-> JStr("oops")])

ResponseTexts ==
    {RawText("<html>502 Bad Gateway</html>"),
     JsonText(EnvelopeJson),
     JsonText(NumericCodeEnvelopeJson),
     JsonText(JObj([k \in {"detail"} |-> JStr("Not Found")])),
     JsonText(HelloJson),
     JsonText(MisshapenJson)}

\* What send().await gives: the status of the reply, or an error.
SendResults == {Ok(200), Ok(401), Err(reqwest_Error("error sending request"))}

\* What response.text().await gives: the response text, or an error.
TextResults ==
    {Ok(t) : t \in ResponseTexts} \cup {Err(reqwest_Error("error decoding response body"))}

\* A call of request(req) that has not run yet.
NewCall(r) ==
    [req |-> r, at |-> "created", sent |-> None, body |-> None,
     outcome |-> None, log |-> <<>>]

InitClient ==
    /\ client \in Clients
    /\ calls \in [RequestIds ->
                    {NewCall(build(input(new(m), "Hello, world!"))) : m \in ClientModels}]
    /\ wire = [c \in RequestIds |-> <<>>]
    /\ pc = "client"
    /\ codec = Idle
    /\ builder = Idle
    /\ hist = Idle
    /\ req = Idle
    /\ diag = {}
    /\ payload = Idle
    /\ resp = Idle
    /\ result = Idle

OutsideClient == UNCHANGED <<pc, codec, builder, hist, req, diag, payload, resp, result, client>>

\* The call c returns with the given outcome.
Return(c, outcome, log) ==
    calls' = [calls EXCEPT ![c].at = "done", ![c].outcome = Some(outcome),
                           ![c].log = @ \o log]

\* request() up to send().await: the model check, then the POST.
RequestStart(c) ==
    /\ calls[c].at = "created"
    /\ IF ~is_gpt5_model(calls[c].req.model)
       THEN /\ Return(c, Err(anyhow("Only GPT-5 models are supported. Got: {}",
                                    <<calls[c].req.model>>)), <<>>)
            /\ UNCHANGED wire
       ELSE /\ wire' = [wire EXCEPT ![c] = Append(@, post(client, calls[c].req))]
            /\ calls' = [calls EXCEPT ![c].at = "sending"]
    /\ OutsideClient

\* send().await completing with a retry of the POST after an error.
SendCompletes_retrying(c) ==
    /\ calls[c].at = "sending"
    /\ \E r \in SendResults :
        IF r.ok
        THEN /\ calls' = [calls EXCEPT ![c].at = "reading", ![c].sent = Some(r)]
             /\ UNCHANGED wire
        ELSE IF Len(wire[c]) < 2
        THEN /\ wire' = [wire EXCEPT ![c] = Append(@, post(client, calls[c].req))]
             /\ calls' = [calls EXCEPT ![c].sent = Some(r)]
        ELSE /\ Return(c, Err(r.err), <<>>)
             /\ UNCHANGED wire
    /\ OutsideClient

\* send().await completes: the ? operator returns the transport's error.
SendCompletes(c) ==
    /\ calls[c].at = "sending"
    /\ \E r \in SendResults :
        IF r.ok
        THEN calls' = [calls EXCEPT ![c].at = "reading", ![c].sent = Some(r)]
        ELSE calls' = [calls EXCEPT ![c].at = "done", ![c].sent = Some(r),
                                    ![c].outcome = Some(Err(r.err))]
    /\ UNCHANGED wire
    /\ OutsideClient

\* response.status() read from the reply some call has got, not
\* necessarily this one.
response_status_of_any_reply(c) ==
    LET got == {d \in RequestIds : calls[d].sent.some /\ calls[d].sent.v.ok}
    IN  calls[CHOOSE d \in got : \A e \in got : d <= e].sent.v.v

\* response.status() of the call's own reply.
response_status(c) == calls[c].sent.v.v

\* response.text().await completes, and request() runs to its end.
BodyArrives(c) ==
    /\ calls[c].at = "reading"
    /\ \E b \in TextResults :
        IF b.ok
        THEN LET rest == request_after_body(response_status(c), b.v)
             IN  calls' = [calls EXCEPT ![c].at = "done", ![c].body = Some(b),
                                        ![c].outcome = Some(rest.outcome),
                                        ![c].log = @ \o rest.log]
        ELSE calls' = [calls EXCEPT ![c].at = "done", ![c].body = Some(b),
                                    ![c].outcome = Some(Err(b.err))]
    /\ UNCHANGED wire
    /\ OutsideClient

NextClient ==
    \E c \in RequestIds :
        \/ RequestStart(c)
        \/ SendCompletes(c)
        \/ BodyArrives(c)

SpecClient == InitClient /\ [][NextClient]_vars

\* response.text().await completes in the request() of lib.rs.
LibBodyArrives(c) ==
    /\ calls[c].at = "reading"
    /\ \E b \in TextResults :
        IF b.ok
        THEN LET rest == lib_request_after_body(b.v)
             IN  calls' = [calls EXCEPT ![c].at = "done", ![c].body = Some(b),
                                        ![c].outcome = Some(rest.outcome),
                                        ![c].log = @ \o rest.log]
        ELSE calls' = [calls EXCEPT ![c].at = "done", ![c].body = Some(b),
                                    ![c].outcome = Some(Err(b.err))]
    /\ UNCHANGED wire
    /\ OutsideClient

NextLib ==
    \E c \in RequestIds :
        \/ RequestStart(c)
        \/ SendCompletes(c)
        \/ LibBodyArrives(c)

\* The same scenario with the request() of lib.rs.
SpecLib == InitClient /\ [][NextLib]_vars

---------------------------------------------------------------------------
(* The simple scenario: one call of simple(model, prompt), which builds    *)
(* its request, awaits request() and extracts the text                     *)

Prompts == {"Hello!", "Hello, world!"}

\* simple() has built its request and is about to call request() on it.
InitSimple ==
    /\ client \in Clients
    /\ \E model \in ClientModels, prompt \in Prompts :
        calls = <<NewCall(build(input(new(model), prompt)))>>
    /\ wire = <<(<<>>)>>
    /\ pc = "simple"
    /\ result = Idle
    /\ codec = Idle
    /\ builder = Idle
    /\ hist = Idle
    /\ req = Idle
    /\ diag = {}
    /\ payload = Idle
    /\ resp = Idle

\* request() has returned to simple(): an error is passed on by ?, a
\* response goes through extract_text().
SimpleReturns ==
    /\ calls[1].at = "done"
    /\ result = Idle
    /\ result' = [op |-> "simple",
                  v |-> IF calls[1].outcome.v.ok
                        THEN extract_text(calls[1].outcome.v.v)
                        ELSE calls[1].outcome.v]
    /\ UNCHANGED <<pc, codec, builder, hist, req, diag, payload, resp, client,
                   calls, wire>>

NextSimple ==
    \/ RequestStart(1)
    \/ SendCompletes(1)
    \/ BodyArrives(1)
    \/ SimpleReturns

SpecSimple == InitSimple /\ [][NextSimple]_vars

---------------------------------------------------------------------------
(* Properties of request() *)

Done(c) == calls[c].at = "done"

\* What the call c returned.
Outcome(c) == calls[c].outcome.v

\* The model ids of the scenario that belong to the GPT-5 family.
AcceptedIds == {"gpt-5", "gpt-5-mini", "gpt-5-nano", "gpt-5-preview", "gpt-50"}

\* The call c got a reply with the status st and read its text.
GotReply(c) ==
    /\ calls[c].sent.some /\ calls[c].sent.v.ok
    /\ calls[c].body.some /\ calls[c].body.v.ok

ReplyStatus(c) == calls[c].sent.v.v

ReplyText(c) == calls[c].body.v.v

\* The call c got a reply whose text is JSON.
GotJsonReply(c) == GotReply(c) /\ ReplyText(c).text = "json"

\* C16: a call whose model id is outside the GPT-5 family never posts and
\* never receives anything from the transport, and when it has returned it
\* has returned the unsupported-model failure.
UnsupportedModelRejectedBeforeTransport ==
    \A c \in RequestIds :
        calls[c].req.model \notin AcceptedIds =>
            /\ wire[c] = <<>>
            /\ calls[c].sent = None
            /\ calls[c].body = None
            /\ calls[c].at \in {"created", "done"}
            /\ Done(c) =>
                Outcome(c) = Err(anyhow("Only GPT-5 models are supported. Got: {}",
                                        <<calls[c].req.model>>))

Gpt4oRejectedWhileOtherCallPosts ==
    \E c, d \in RequestIds :
        /\ calls[c].req.model = "gpt-4o"
        /\ Done(c)
        /\ ~Outcome(c).ok
        /\ wire[c] = <<>>
        /\ Len(wire[d]) = 1

\* The JSON value parses as the vendor's error envelope.
ParsesAsEnvelope(j) == OpenAiError_deserialize(j).ok

\* C17: a call that got a non-success status with a JSON body has failed:
\* with the status and the vendor's message when the body parses as the
\* error envelope, with the status and the raw body otherwise.
NonSuccessStatusAlwaysFails ==
    \A c \in RequestIds :
        (Done(c) /\ GotJsonReply(c) /\ ~(ReplyStatus(c) \in 200..299)) =>
            /\ ~Outcome(c).ok
            /\ Len(Outcome(c).err.args) = 2
            /\ Outcome(c).err.args[1] = ReplyStatus(c)
            /\ Outcome(c).err.args[2] =
                    IF ParsesAsEnvelope(ReplyText(c).of)
                    THEN ReplyText(c).of.o["error"].o["message"].s
                    ELSE ReplyText(c)

\* The request() of lib.rs has returned a response to a call that got the
\* status 401.
ResponseReturnedFor401 ==
    \E c \in RequestIds :
        /\ Done(c)
        /\ calls[c].sent = Some(Ok(401))
        /\ calls[c].body = Some(Ok(JsonText(JObj([k \in {"detail"} |-> JStr("Not Found")]))))
        /\ Outcome(c).ok

\* The call c got a success status with a JSON body.
GotJsonWithSuccess(c) == Done(c) /\ GotJsonReply(c) /\ ReplyStatus(c) \in 200..299

\* C18 as stated: a call that got a success status with a JSON body returns
\* the decoded response when the body fits, and otherwise a parse error
\* that includes the reason of the decode failure and the raw body.
ParseErrorCarriesReasonAndRawBody ==
    \A c \in RequestIds :
        GotJsonWithSuccess(c) =>
            LET decoded == Gpt5Response_deserialize(ReplyText(c).of)
            IN  IF decoded.ok THEN Outcome(c) = decoded
                ELSE /\ ~Outcome(c).ok
                     /\ Outcome(c).err.msg = "Failed to parse GPT-5 response: {}"
                     /\ Len(Outcome(c).err.args) = 2
                     /\ Outcome(c).err.args[1] = decoded.err
                     /\ Outcome(c).err.args[2] = ReplyText(c)

\* C18 amended: a call that got a success status with a JSON body returns
\* the decoded response when the body fits, and otherwise a parse error
\* that includes the reason of the decode failure and nothing else; the
\* raw body is written to the error log.
ParseErrorCarriesReasonOnly ==
    \A c \in RequestIds :
        GotJsonWithSuccess(c) =>
            LET decoded == Gpt5Response_deserialize(ReplyText(c).of)
            IN  IF decoded.ok THEN Outcome(c) = decoded
                ELSE /\ ~Outcome(c).ok
                     /\ Outcome(c).err.msg = "Failed to parse GPT-5 response: {}"
                     /\ Outcome(c).err.args = <<decoded.err>>
                     /\ \E i \in DOMAIN calls[c].log :
                            /\ calls[c].log[i].level = "error"
                            /\ calls[c].log[i].msg = "Raw response: {}"
                            /\ calls[c].log[i].args[1] = ReplyText(c)

MisshapenBodyParseErrorReturned ==
    \E c \in RequestIds :
        /\ Done(c)
        /\ calls[c].sent = Some(Ok(200))
        /\ calls[c].body = Some(Ok(JsonText(MisshapenJson)))
        /\ Outcome(c) = Err(anyhow("Failed to parse GPT-5 response: {}",
                                   <<"invalid type: expected a sequence">>))

\* The outcomes of the state machine of one request that fit what the call
\* c returned.
OutcomeKinds(c) ==
    {k \in {"Succeeded", "RejectedLocally", "TransportFailed", "ServerError", "DecodeFailed"} :
        CASE k = "Succeeded" -> Outcome(c).ok
          [] k = "RejectedLocally" ->
                ~Outcome(c).ok
                /\ Outcome(c).err.msg = "Only GPT-5 models are supported. Got: {}"
          [] k = "TransportFailed" ->
                ~Outcome(c).ok /\ Outcome(c).err.msg = "reqwest::Error"
          [] k = "ServerError" ->
                ~Outcome(c).ok
                /\ Outcome(c).err.msg \in {"OpenAI API error (status {}): {}",
                                          "OpenAI API request failed with status {}: {}"}
          [] k = "DecodeFailed" ->
                ~Outcome(c).ok
                /\ Outcome(c).err.msg \in {"Invalid JSON response: {}",
                                          "Failed to parse GPT-5 response: {}"}}

\* The transport failed the call c: send() or text() gave an error.
TransportGaveError(c) ==
    \/ calls[c].sent.some /\ ~calls[c].sent.v.ok
    \/ calls[c].body.some /\ ~calls[c].body.v.ok

\* The error the transport gave the call c.
TransportError(c) ==
    IF ~calls[c].sent.v.ok THEN calls[c].sent.v.err ELSE calls[c].body.v.err

\* What holds of one call at every moment.
OneOutcome(c) ==
    /\ Len(wire[c]) <= 1
    /\ calls[c].outcome.some <=> Done(c)
    /\ Done(c) =>
        /\ Cardinality(OutcomeKinds(c)) = 1
        /\ DOMAIN Outcome(c) = IF Outcome(c).ok THEN {"ok", "v"} ELSE {"ok", "err"}
        /\ "RejectedLocally" \in OutcomeKinds(c) <=> wire[c] = <<>>
        /\ "TransportFailed" \in OutcomeKinds(c) <=> TransportGaveError(c)
        /\ TransportGaveError(c) =>
            /\ Outcome(c) = Err(TransportError(c))
            /\ calls[c].log = <<>>
        /\ OutcomeKinds(c) \cap {"Succeeded", "ServerError", "DecodeFailed"} # {} =>
            GotReply(c)
        /\ Outcome(c).ok => ReplyStatus(c) \in 200..299

\* A call that has returned is left as it is, and posts nothing more.
NoRetry(c) == Done(c) => calls'[c] = calls[c] /\ wire'[c] = wire[c]

\* C19: every call makes at most one POST and ends in exactly one of
\* Succeeded, RejectedLocally, TransportFailed, ServerError and
\* DecodeFailed; a call that has returned does nothing more, a failure of
\* the transport is returned as it was received with nothing decoded, and
\* a failure never comes with a response.
OneAttemptOneOutcome ==
    /\ [](\A c \in RequestIds : OneOutcome(c))
    /\ [][\A c \in RequestIds : NoRetry(c)]_vars

TransportFailureReturnedAsReceived ==
    \E c \in RequestIds :
        /\ Done(c)
        /\ calls[c].sent = Some(Err(reqwest_Error("error sending request")))
        /\ Outcome(c) = Err(reqwest_Error("error sending request"))
        /\ Len(wire[c]) = 1
        /\ OutcomeKinds(c) = {"TransportFailed"}

\* What request(r) returns when it runs on its own and the transport
\* answers with sent and body.
Alone(r, sent, body) ==
    IF ~is_gpt5_model(r.model)
    THEN Err(anyhow("Only GPT-5 models are supported. Got: {}", <<r.model>>))
    ELSE IF ~sent.v.ok THEN Err(sent.v.err)
    ELSE IF ~body.v.ok THEN Err(body.v.err)
    ELSE request_after_body(sent.v.v, body.v.v).outcome

\* A step leaves the client and every request as they are, and moves one
\* call only.
StepOfOneCall ==
    /\ client' = client
    /\ \A c \in RequestIds : calls'[c].req = calls[c].req
    /\ \A c, d \in RequestIds :
        (calls'[c] # calls[c] /\ d # c) => (calls'[d] = calls[d] /\ wire'[d] = wire[d])

\* C20: in every interleaving each call returns what it would return alone
\* on its own request and its own replies, posts its own request with the
\* client's key, and no step changes the client or a request.
CallsAreIndependent ==
    /\ [](\A c \in RequestIds :
            /\ Done(c) => Outcome(c) = Alone(calls[c].req, calls[c].sent, calls[c].body)
            /\ wire[c] # <<>> => wire[c][1] = post(client, calls[c].req))
    /\ [][StepOfOneCall]_vars

OneCallSucceededWhileOtherHolds401 ==
    \E c, d \in RequestIds :
        /\ Done(c)
        /\ calls[c].sent = Some(Ok(200))
        /\ Outcome(c).ok
        /\ text(Outcome(c).v) = Some("A")
        /\ calls[d].at = "reading"
        /\ calls[d].sent = Some(Ok(401))

\* The failures of request() that carry the status of the reply.
StatusFailures ==
    {"OpenAI API error (status {}): {}",
     "OpenAI API request failed with status {}: {}"}

\* C23: a call whose reply text is no JSON has failed with the
\* malformed-body failure and the parser's description, whatever the
\* status of the reply; so a call that failed with a failure carrying the
\* status got a JSON body (and a non-success status).
MalformedBodyFailsWhateverTheStatus ==
    \A c \in RequestIds :
        (Done(c) /\ GotReply(c)) =>
            /\ ReplyText(c).text # "json" =>
                    Outcome(c) = Err(anyhow("Invalid JSON response: {}",
                                            <<serde_json_from_str(ReplyText(c)).err>>))
            /\ (~Outcome(c).ok /\ Outcome(c).err.msg \in StatusFailures) =>
                    /\ ReplyText(c).text = "json"
                    /\ ReplyStatus(c) \notin 200..299

BadGatewayPageMalformedFor200And401 ==
    \E c, d \in RequestIds :
        /\ Done(c) /\ Done(d)
        /\ calls[c].sent = Some(Ok(200))
        /\ calls[d].sent = Some(Ok(401))
        /\ calls[c].body = Some(Ok(RawText("<html>502 Bad Gateway</html>")))
        /\ calls[d].body = calls[c].body
        /\ Outcome(c).err.msg = "Invalid JSON response: {}"
        /\ Outcome(d) = Outcome(c)

\* The model id starts with the five characters g, p, t, -, 5.
HasGpt5Prefix(id) ==
    /\ Len(chars(id)) >= 5
    /\ SubSeq(chars(id), 1, 5) = <<"g", "p", "t", "-", "5">>

\* The failure of the local model check for the model id.
Unsupported(id) == Err(anyhow("Only GPT-5 models are supported. Got: {}", <<id>>))

\* C28: request() accepts a model id exactly when it has the prefix gpt-5
\* (the three exact names are cases of the prefix): a call that has
\* started has posted exactly when its id has the prefix, and a call
\* that has returned has returned the unsupported-model failure exactly
\* when its id lacks it. A request with such an id was built all the same.
ModelAcceptedIffGpt5Prefix ==
    /\ \A id \in {"gpt-5", "gpt-5-mini", "gpt-5-nano"} : HasGpt5Prefix(id)
    /\ \A c \in RequestIds :
        /\ is_gpt5_model(calls[c].req.model) <=> HasGpt5Prefix(calls[c].req.model)
        /\ calls[c].at # "created" =>
                (Len(wire[c]) = 1 <=> HasGpt5Prefix(calls[c].req.model))
        /\ Done(c) =>
                (Outcome(c) = Unsupported(calls[c].req.model)
                    <=> ~HasGpt5Prefix(calls[c].req.model))

Gpt50AcceptedAndGpt4oRejected ==
    \E c, d \in RequestIds :
        /\ calls[c].req = build(input(new(Custom("gpt-50")), "Hello, world!"))
        /\ calls[d].req = build(input(new(Custom("gpt-4o")), "Hello, world!"))
        /\ Done(c) /\ Done(d)
        /\ Outcome(c).ok
        /\ wire[c][1].json.o["model"] = JStr("gpt-50")
        /\ Outcome(d) = Unsupported("gpt-4o")

\* The failures of request() that report the vendor's error.
VendorErrorFailures ==
    {"OpenAI API error (status {}): {}", "OpenAI API error: {}"}

\* C29: a call that got a success status with a JSON body has not failed
\* with the vendor-error failure; when the body fits the Response shape
\* the call has returned the decoded response, for which has_error() is
\* true when the body holds a non-null error.
SuccessStatusNeverVendorError ==
    \A c \in RequestIds :
        GotJsonWithSuccess(c) =>
            LET decoded == Gpt5Response_deserialize(ReplyText(c).of)
            IN  /\ Outcome(c).ok \/ Outcome(c).err.msg \notin VendorErrorFailures
                /\ decoded.ok =>
                    /\ Outcome(c) = decoded
                    /\ ("error" \in DOMAIN ReplyText(c).of.o
                            /\ ReplyText(c).of.o["error"] # JNull)
                        => has_error(Outcome(c).v)

\* The request() of lib.rs has failed a call that got the status 200 and
\* the error envelope with the vendor's message.
VendorErrorReturnedFor200 ==
    \E c \in RequestIds :
        /\ Done(c)
        /\ calls[c].sent = Some(Ok(200))
        /\ calls[c].body = Some(Ok(JsonText(EnvelopeJson)))
        /\ Gpt5Response_deserialize(EnvelopeJson).ok
        /\ Outcome(c) = Err(anyhow("OpenAI API error: {}", <<"Invalid API key">>))

---------------------------------------------------------------------------
(* Properties of simple() *)

\* C21: simple() posts a request whose only keys are model and input. It
\* returns Ok(t) exactly when request() returned a response and t is the
\* text of the first message/output_text segment of that response; a
\* failure of request() is returned as it is, and a response without such
\* a text gives the no-text-content failure, never an empty string.
SimpleReturnsFirstTextOrFailure ==
    /\ calls[1].req.web_search_config = None
    /\ wire[1] # <<>> =>
            wire[1][1].json =
                JObj([k \in {"model", "input"} |->
                        IF k = "model" THEN JStr(calls[1].req.model)
                        ELSE JStr(calls[1].req.input)])
    /\ result # Idle =>
        /\ result.v.ok <=> (Outcome(1).ok /\ text(Outcome(1).v).some)
        /\ result.v.ok => result.v.v = text(Outcome(1).v).v
        /\ ~Outcome(1).ok => result.v = Outcome(1)
        /\ (Outcome(1).ok /\ text(Outcome(1).v) = None) =>
                result.v = Err(anyhow("No text content in response output", <<>>))

NoTextContentReportedFor200 ==
    /\ result # Idle
    /\ calls[1].sent = Some(Ok(200))
    /\ calls[1].body = Some(Ok(JsonText(JObj([k \in {"detail"} |-> JStr("Not Found")]))))
    /\ Outcome(1).ok
    /\ result.v = Err(anyhow("No text content in response output", <<>>))

====
